----------------------- MODULE LedgerPosting_proofs -----------------------
(***************************************************************************)
(* The types of LedgerPosting, where its journals are, and what a posting  *)
(* leaves behind, for every number of groups, attempts, submitters,        *)
(* pauses, deletes, faults and crashes.                                    *)
(*                                                                         *)
(* First: no journal is ever mixed up with another: a durable group only   *)
(* points at a journal of its own, and a processor run keeps no journal    *)
(* twice in the list it rolls back; none is left in Finance that the       *)
(* batch, its groups and its processor have all forgotten, while the       *)
(* groups are there; and a crash or a lost answer leaves at most one empty *)
(* journal nobody knows of.                                                *)
(*                                                                         *)
(* Second: a pause lets at most one more journal through, and Posted,      *)
(* Canceled and the progress mean what they say.  This is one inductive    *)
(* invariant, CleanInv.  Under Ordered it says who may do what when        *)
(* (OrderInv: a request finds no processor, a paused job is not on the     *)
(* queue, the batch is Posting while anything runs), what the journals in  *)
(* Finance and the groups tell about each other while a run goes on and    *)
(* between two runs (DataInv), and what the counter of the job counts      *)
(* (CountInv).                                                             *)
(*                                                                         *)
(* Third: every step of a posting that is neither paused nor deleted maps  *)
(* to a step of PostingLifecycle.                                          *)
(***************************************************************************)
EXTENDS LedgerPosting, MCLedgerPosting, FiniteSetTheorems, TLAPS


-----------------------------------------------------------------------------
(* Types.                                                                  *)

(* TypeOK is not inductive: posting lines looks the journal up in fo, and  *)
(* updating a group needs one, so the position of the processor goes with  *)
(* it.                                                                     *)
TypeInv == TypeOK /\ WorkerPosition

(* A processor without a job.                                              *)
LEMMA IdleWorkerType == IdleWorker \in Workers
  BY DurableQueueAssumption
  DEF IdleWorker, Workers, WorkerPc, NoGroups, Absent, GroupDocs, NoHeader

LEMMA TypeInvInit == Init => TypeInv
<1> SUFFICES ASSUME Init PROVE TypeInv
  OBVIOUS
<1>2. BatchOK /\ JobOK /\ RedisOK
  BY DEF Init, BatchOK, JobOK, RedisOK, BatchStatus, JobStatus, RedisState,
         NoRedisJob
<1>3. GroupsOK /\ FoOK /\ WorkerOK /\ RequestsOK
  BY IdleWorkerType DEF Init, GroupsOK, FoOK, WorkerOK, RequestsOK, NoGroups, Absent,
              GroupDocs, SubPc, CtlPc
<1>4. WorkerPosition
  BY DEF Init, IdleWorker, WorkerPosition
<1>5. QED
  BY <1>2, <1>3, <1>4 DEF TypeInv, TypeOK

(* What a step leaves alone keeps its type, as long as Finance creates no  *)
(* journal ...                                                             *)
LEMMA Frame ==
  ASSUME TypeInv, UNCHANGED fo
  PROVE  /\ HeaderIds' = HeaderIds /\ GroupDocs' = GroupDocs
         /\ Workers' = Workers /\ FoOK'
         /\ worker' = IdleWorker => WorkerOK' /\ WorkerPosition'
         /\ UNCHANGED batch => BatchOK'
         /\ UNCHANGED job => JobOK'
         /\ UNCHANGED groups => GroupsOK'
         /\ UNCHANGED redis => RedisOK'
         /\ UNCHANGED worker => WorkerOK' /\ WorkerPosition'
         /\ UNCHANGED <<subs, ctl, boot, spent>> => RequestsOK'
<1>1. HeaderIds' = HeaderIds
  BY DEF HeaderIds
<1>2. GroupDocs' = GroupDocs
  BY <1>1 DEF GroupDocs
<1>3. Workers' = Workers
  BY <1>1, <1>2 DEF Workers
<1>4. worker' = IdleWorker => WorkerOK' /\ WorkerPosition'
  <2>1. IdleWorker.pc = "idle"
    BY DEF IdleWorker
  <2>2. QED
    BY <1>3, <2>1, IdleWorkerType DEF WorkerOK, WorkerPosition
<1>5. QED
  BY <1>1, <1>2, <1>3, <1>4 DEF TypeInv, TypeOK, BatchOK, JobOK, GroupsOK,
     RedisOK, FoOK, WorkerOK, RequestsOK, WorkerPosition

(* ... and when it does, the numbers given out so far stay valid.          *)
LEMMA Grow ==
  ASSUME TypeInv, FoOK', Len(fo) <= Len(fo')
  PROVE  /\ HeaderIds \subseteq HeaderIds' /\ Workers \subseteq Workers'
         /\ UNCHANGED batch => BatchOK'
         /\ UNCHANGED job => JobOK'
         /\ UNCHANGED groups => GroupsOK'
         /\ UNCHANGED redis => RedisOK'
         /\ UNCHANGED <<subs, ctl, boot, spent>> => RequestsOK'
<1>1. HeaderIds \subseteq HeaderIds'
  BY DEF TypeInv, TypeOK, FoOK, HeaderIds
<1>2. GroupDocs \subseteq GroupDocs'
  BY <1>1 DEF GroupDocs
<1>3. Workers \subseteq Workers'
  <2> SUFFICES ASSUME NEW w \in Workers PROVE w \in Workers'
    OBVIOUS
  <2>1. w.created \in Seq(HeaderIds')
    BY <1>1 DEF Workers
  <2>2. QED
    BY <1>1, <1>2, <2>1 DEF Workers
<1>4. UNCHANGED batch => BatchOK'
  BY <1>1 DEF TypeInv, TypeOK, BatchOK
<1>5. UNCHANGED groups => GroupsOK'
  BY <1>2 DEF TypeInv, TypeOK, GroupsOK
<1>6. QED
  BY <1>1, <1>3, <1>4, <1>5 DEF TypeInv, TypeOK, JobOK, RedisOK, RequestsOK

(* Moving the processor changes nothing but its position.                  *)
LEMMA GotoStep ==
  ASSUME TypeInv, UNCHANGED fo, NEW p \in WorkerPc, Goto(p)
  PROVE  /\ WorkerOK'
         /\ worker'.pc = p
         /\ worker'.at = worker.at /\ worker'.key = worker.key
         /\ worker'.undo = worker.undo /\ worker'.created = worker.created
<1>1. worker \in Workers
  BY DEF TypeInv, TypeOK, WorkerOK
<1>2. worker' \in Workers
  BY <1>1 DEF Workers, Goto
<1>3. QED
  BY <1>1, <1>2, Frame DEF WorkerOK, Workers, Goto

(* Changing one group keeps the collection well formed.                    *)
LEMMA SetGroupStep ==
  ASSUME TypeInv, UNCHANGED fo, NEW g \in Groups, NEW r \in GroupDocs,
         SetGroup(g, r)
  PROVE  GroupsOK'
  BY Frame DEF TypeInv, TypeOK, GroupsOK, SetGroup

(* A journal Finance has created, and its next version.                    *)
LEMMA JournalStep ==
  ASSUME TypeInv, NEW h \in HeaderIds
  PROVE  /\ fo[h] \in Journals
         /\ \A r \in Journals :
              fo' = [fo EXCEPT ![h] = r] => FoOK' /\ Len(fo) = Len(fo')
<1>1. fo \in Seq(Journals)
  BY DEF TypeInv, TypeOK, FoOK
<1>2. h \in 1..Len(fo)
  BY DEF HeaderIds
<1>3. QED
  BY <1>1, <1>2 DEF FoOK

LEMMA SubmitType ==
  ASSUME TypeInv, NEW s \in Submitters, Submit(s)
  PROVE  TypeInv'
<1>1. CASE SubmitValidate(s)
  <2>1. RequestsOK'
    BY <1>1, Frame DEF SubmitValidate, SubGoto, Spend, TypeInv, TypeOK,
        RequestsOK, SubPc, CtlPc
  <2>2. QED
    BY <1>1, <2>1, Frame DEF SubmitValidate, TypeInv, TypeOK
<1>2. CASE SubmitPrepare(s)
  <2>1. BatchOK'
    BY <1>2, Frame DEF SubmitPrepare, SubGoto, SetBatchStatus, TypeInv,
        TypeOK, BatchOK, BatchStatus
  <2>2. RequestsOK'
    BY <1>2, Frame DEF SubmitPrepare, SubGoto, SetBatchStatus, TypeInv,
        TypeOK, RequestsOK, SubPc, CtlPc
  <2>3. QED
    BY <1>2, <2>1, <2>2, Frame DEF SubmitPrepare, TypeInv, TypeOK
<1>3. CASE SubmitLookup(s)
  <2>1. RequestsOK'
    BY <1>3, Frame DEF SubmitLookup, SubGoto, TypeInv, TypeOK, RequestsOK,
        SubPc, CtlPc
  <2>2. QED
    BY <1>3, <2>1, Frame DEF SubmitLookup, TypeInv, TypeOK
<1>4. CASE SubmitMarkPosted(s)
  <2>1. BatchOK'
    BY <1>4, Frame DEF SubmitMarkPosted, SubGoto, SetBatchStatus, TypeInv,
        TypeOK, BatchOK, BatchStatus
  <2>2. RequestsOK'
    BY <1>4, Frame DEF SubmitMarkPosted, SubGoto, SetBatchStatus, TypeInv,
        TypeOK, RequestsOK, SubPc, CtlPc
  <2>3. QED
    BY <1>4, <2>1, <2>2, Frame DEF SubmitMarkPosted, TypeInv, TypeOK
<1>5. CASE SubmitRemoveFailed(s)
  <2>1. RedisOK'
    BY <1>5, Frame DEF SubmitRemoveFailed, SubGoto, NoRedisJob, TypeInv,
        TypeOK, RedisOK, RedisState
  <2>2. RequestsOK'
    BY <1>5, Frame DEF SubmitRemoveFailed, SubGoto, NoRedisJob, TypeInv,
        TypeOK, RequestsOK, SubPc, CtlPc
  <2>3. QED
    BY <1>5, <2>1, <2>2, Frame DEF SubmitRemoveFailed, TypeInv, TypeOK
<1>6. CASE SubmitStorePrepare(s)
  <2>1. RequestsOK'
    BY <1>6, Frame DEF SubmitStorePrepare, SubGoto, TypeInv, TypeOK,
        RequestsOK, SubPc, CtlPc
  <2>2. QED
    BY <1>6, <2>1, Frame DEF SubmitStorePrepare, TypeInv, TypeOK
<1>7. CASE ReplaceDeleteGroups(s)
  <2>1. GroupsOK'
    BY <1>7, Frame DEF ReplaceDeleteGroups, SubGoto, NoGroups, Absent,
        TypeInv, TypeOK, GroupsOK, GroupDocs, NoHeader
  <2>2. RequestsOK'
    BY <1>7, Frame DEF ReplaceDeleteGroups, SubGoto, NoGroups, Absent,
        TypeInv, TypeOK, RequestsOK, SubPc, CtlPc
  <2>3. QED
    BY <1>7, <2>1, <2>2, Frame DEF ReplaceDeleteGroups, TypeInv, TypeOK
<1>8. CASE ReplaceInsertGroups(s)
  <2>1. GroupsOK'
    BY <1>8, Frame DEF ReplaceInsertGroups, SubGoto, NoGroups, Absent,
        Pending, TypeInv, TypeOK, GroupsOK, GroupDocs, NoHeader
  <2>2. RequestsOK'
    BY <1>8, Frame DEF ReplaceInsertGroups, SubGoto, NoGroups, Absent,
        Pending, TypeInv, TypeOK, RequestsOK, SubPc, CtlPc
  <2>3. QED
    BY <1>8, <2>1, <2>2, Frame DEF ReplaceInsertGroups, TypeInv, TypeOK
<1>9. CASE ReplaceUpsertJob(s)
  <2>1. JobOK'
    BY <1>9, Frame DEF ReplaceUpsertJob, SubGoto, TypeInv, TypeOK, JobOK,
        JobStatus
  <2>2. RequestsOK'
    BY <1>9, Frame DEF ReplaceUpsertJob, SubGoto, TypeInv, TypeOK, RequestsOK,
        SubPc, CtlPc
  <2>3. QED
    BY <1>9, <2>1, <2>2, Frame DEF ReplaceUpsertJob, TypeInv, TypeOK
<1>10. CASE SubmitAdd(s)
  <2>1. RedisOK'
    BY <1>10, Frame DEF SubmitAdd, SubGoto, NewRedisJob, TypeInv, TypeOK,
        RedisOK, RedisState
  <2>2. RequestsOK'
    BY <1>10, Frame DEF SubmitAdd, SubGoto, NewRedisJob, TypeInv, TypeOK,
        RequestsOK, SubPc, CtlPc
  <2>3. QED
    BY <1>10, <2>1, <2>2, Frame DEF SubmitAdd, TypeInv, TypeOK
<1>11. QED
  BY <1>1, <1>2, <1>3, <1>4, <1>5, <1>6, <1>7, <1>8, <1>9, <1>10 DEF Submit

LEMMA ControlType ==
  ASSUME TypeInv, Control
  PROVE  TypeInv'
<1>1. CASE PauseRead
  <2>1. RequestsOK'
    BY <1>1, Frame DEF PauseRead, Spend, TypeInv, TypeOK, RequestsOK, SubPc,
        CtlPc
  <2>2. QED
    BY <1>1, <2>1, Frame DEF PauseRead, TypeInv, TypeOK
<1>2. CASE PauseSet
  <2>1. BatchOK'
    BY <1>2, Frame DEF PauseSet, SetBatchPaused, TypeInv, TypeOK, BatchOK,
        BatchStatus
  <2>2. RequestsOK'
    BY <1>2, Frame DEF PauseSet, SetBatchPaused, TypeInv, TypeOK, RequestsOK,
        SubPc, CtlPc
  <2>3. QED
    BY <1>2, <2>1, <2>2, Frame DEF PauseSet, TypeInv, TypeOK
<1>3. CASE ResumeRead
  <2>1. RequestsOK'
    BY <1>3, Frame DEF ResumeRead, TypeInv, TypeOK, RequestsOK, SubPc, CtlPc
  <2>2. QED
    BY <1>3, <2>1, Frame DEF ResumeRead, TypeInv, TypeOK
<1>4. CASE ResumeClear
  <2>1. BatchOK'
    BY <1>4, Frame DEF ResumeClear, SetBatchPaused, TypeInv, TypeOK, BatchOK,
        BatchStatus
  <2>2. RequestsOK'
    BY <1>4, Frame DEF ResumeClear, SetBatchPaused, TypeInv, TypeOK,
        RequestsOK, SubPc, CtlPc
  <2>3. QED
    BY <1>4, <2>1, <2>2, Frame DEF ResumeClear, TypeInv, TypeOK
<1>5. CASE ResumeFindJob
  <2>1. RequestsOK'
    BY <1>5, Frame DEF ResumeFindJob, TypeInv, TypeOK, RequestsOK, SubPc,
        CtlPc
  <2>2. QED
    BY <1>5, <2>1, Frame DEF ResumeFindJob, TypeInv, TypeOK
<1>6. CASE RequeueCheck
  <2>1. RedisOK'
    BY <1>6, Frame DEF RequeueCheck, NoRedisJob, TypeInv, TypeOK, RedisOK,
        RedisState
  <2>2. RequestsOK'
    BY <1>6, Frame DEF RequeueCheck, NoRedisJob, TypeInv, TypeOK, RequestsOK,
        SubPc, CtlPc
  <2>3. QED
    BY <1>6, <2>1, <2>2, Frame DEF RequeueCheck, TypeInv, TypeOK
<1>7. CASE RequeueAdd
  <2>1. RedisOK'
    BY <1>7, Frame DEF RequeueAdd, NewRedisJob, TypeInv, TypeOK, RedisOK,
        RedisState
  <2>2. RequestsOK'
    BY <1>7, Frame DEF RequeueAdd, NewRedisJob, TypeInv, TypeOK, RequestsOK,
        SubPc, CtlPc
  <2>3. QED
    BY <1>7, <2>1, <2>2, Frame DEF RequeueAdd, TypeInv, TypeOK
<1>8. CASE MarkQueued
  <2>1. JobOK'
    BY <1>8, Frame DEF MarkQueued, SetJobStatus, TypeInv, TypeOK, JobOK,
        JobStatus
  <2>2. RequestsOK'
    BY <1>8, Frame DEF MarkQueued, SetJobStatus, TypeInv, TypeOK, RequestsOK,
        SubPc, CtlPc
  <2>3. QED
    BY <1>8, <2>1, <2>2, Frame DEF MarkQueued, TypeInv, TypeOK
<1>9. CASE DeleteRead
  <2>1. RequestsOK'
    BY <1>9, Frame DEF DeleteRead, Spend, TypeInv, TypeOK, RequestsOK, SubPc,
        CtlPc
  <2>2. QED
    BY <1>9, <2>1, Frame DEF DeleteRead, TypeInv, TypeOK
<1>10. CASE DeletePause
  <2>1. BatchOK'
    BY <1>10, Frame DEF DeletePause, SetBatchPaused, TypeInv, TypeOK, BatchOK,
        BatchStatus
  <2>2. RequestsOK'
    BY <1>10, Frame DEF DeletePause, SetBatchPaused, TypeInv, TypeOK,
        RequestsOK, SubPc, CtlPc
  <2>3. QED
    BY <1>10, <2>1, <2>2, Frame DEF DeletePause, TypeInv, TypeOK
<1>11. CASE DeleteRedisJob
  <2>1. RedisOK'
    BY <1>11, Frame DEF DeleteRedisJob, NoRedisJob, TypeInv, TypeOK, RedisOK,
        RedisState
  <2>2. RequestsOK'
    BY <1>11, Frame DEF DeleteRedisJob, NoRedisJob, TypeInv, TypeOK,
        RequestsOK, SubPc, CtlPc
  <2>3. QED
    BY <1>11, <2>1, <2>2, Frame DEF DeleteRedisJob, TypeInv, TypeOK
<1>12. CASE DeletePurge
  <2>1. JobOK'
    BY <1>12, Frame DEF DeletePurge, NoGroups, Absent, TypeInv, TypeOK, JobOK,
        JobStatus
  <2>2. GroupsOK'
    BY <1>12, Frame DEF DeletePurge, NoGroups, Absent, TypeInv, TypeOK,
        GroupsOK, GroupDocs, NoHeader
  <2>3. RequestsOK'
    BY <1>12, Frame DEF DeletePurge, NoGroups, Absent, TypeInv, TypeOK,
        RequestsOK, SubPc, CtlPc
  <2>4. QED
    BY <1>12, <2>1, <2>2, <2>3, Frame DEF DeletePurge, TypeInv, TypeOK
<1>13. CASE DeleteBatch
  <2>1. BatchOK'
    BY <1>13, Frame DEF DeleteBatch, TypeInv, TypeOK, BatchOK, BatchStatus
  <2>2. RequestsOK'
    BY <1>13, Frame DEF DeleteBatch, TypeInv, TypeOK, RequestsOK, SubPc, CtlPc
  <2>3. QED
    BY <1>13, <2>1, <2>2, Frame DEF DeleteBatch, TypeInv, TypeOK
<1>14. QED
  BY <1>1, <1>2, <1>3, <1>4, <1>5, <1>6, <1>7, <1>8, <1>9, <1>10, <1>11, <1>12, <1>13 DEF Control

LEMMA BullType ==
  ASSUME TypeInv, PickUp \/ PromoteDelayed \/ Stalled
  PROVE  TypeInv'
<1>1. CASE PickUp
  <2>1. RedisOK'
    BY <1>1 DEF PickUp, TypeInv, TypeOK, RedisOK, RedisState
  <2>2. redis.attempts \in Nat
    BY DEF TypeInv, TypeOK, RedisOK
  <2>3. worker' \in Workers /\ worker'.pc = "start"
    BY <1>1, <2>2, IdleWorkerType DEF PickUp, Workers, WorkerPc
  <2>4. WorkerOK' /\ WorkerPosition'
    BY <1>1, <2>3, Frame DEF PickUp, WorkerOK, WorkerPosition
  <2>5. QED
    BY <1>1, <2>1, <2>4, Frame DEF PickUp, TypeInv, TypeOK
<1>2. CASE PromoteDelayed
  <2>1. RedisOK'
    BY <1>2, Frame DEF PromoteDelayed, TypeInv, TypeOK, RedisOK, RedisState
  <2>2. QED
    BY <1>2, <2>1, Frame DEF PromoteDelayed, TypeInv, TypeOK
<1>3. CASE Stalled
  <2>1. RedisOK'
    <3>1. redis \in [state : RedisState, attempts : Nat, stalled : Nat]
      BY DEF TypeInv, TypeOK, RedisOK
    <3>2. \/ redis' = [redis EXCEPT !.state = "waiting", !.stalled = redis.stalled + 1]
          \/ redis' = [redis EXCEPT !.state = "failed"]
      BY <1>3 DEF Stalled
    <3>3. redis.stalled + 1 \in Nat
      BY <3>1
    <3>4. QED
      BY <3>1, <3>2, <3>3 DEF RedisOK, RedisState
  <2>2. QED
    BY <1>3, <2>1, Frame DEF Stalled, TypeInv, TypeOK
<1>4. QED
  BY <1>1, <1>2, <1>3

LEMMA ProcessorType ==
  ASSUME TypeInv, Processor
  PROVE  TypeInv'
<1>1. CASE MarkActive
  <2>1. JobOK'
    BY <1>1, Frame DEF MarkActive, SetJobStatus, Goto, TypeInv, TypeOK, JobOK,
        JobStatus
  <2>2. WorkerOK' /\ WorkerPosition'
    BY <1>1, GotoStep, Frame DEF MarkActive, TypeInv, WorkerPc, WorkerPosition
  <2>3. QED
    BY <1>1, <2>1, <2>2, Frame DEF MarkActive, TypeInv, TypeOK
<1>2. CASE ListGroups
  <2>1. worker \in Workers /\ groups \in [Groups -> GroupDocs]
    BY DEF TypeInv, TypeOK, WorkerOK, GroupsOK
  <2>2. PICK p \in {"fail", "check"} :
          worker' = [worker EXCEPT !.snap = groups, !.pc = p]
    BY <1>2 DEF ListGroups
  <2>3. worker' \in Workers /\ worker'.pc = p
    BY <2>1, <2>2 DEF Workers, WorkerPc
  <2>4. WorkerOK' /\ WorkerPosition'
    BY <1>2, <2>3, Frame DEF ListGroups, WorkerOK, WorkerPosition
  <2>5. QED
    BY <1>2, <2>4, Frame DEF ListGroups, TypeInv, TypeOK
<1>3. CASE CheckPause
  <2>1. ASSUME Goto("settle") \/ Goto("stop")
        PROVE  WorkerOK' /\ WorkerPosition'
    BY <1>3, <2>1, GotoStep, Frame DEF CheckPause, TypeInv, WorkerPc, WorkerPosition
  <2>2. ASSUME NEW g \in Groups,
               worker' = [worker EXCEPT !.pc = "markGroup", !.at = g]
        PROVE  WorkerOK' /\ WorkerPosition'
    <3>1. worker \in Workers
      BY DEF TypeInv, TypeOK, WorkerOK
    <3>2. g \in 0..N
      BY DurableQueueAssumption DEF DurableQueueAssumption, Groups
    <3>3. worker' \in Workers /\ worker'.pc = "markGroup" /\ worker'.at = g
      BY <2>2, <3>1, <3>2 DEF Workers, WorkerPc
    <3>4. QED
      BY <1>3, <3>3, Frame DEF CheckPause, WorkerOK, WorkerPosition
  <2>3. WorkerOK' /\ WorkerPosition'
    BY <1>3, <2>1, <2>2 DEF CheckPause, Unposted
  <2>4. QED
    BY <1>3, <2>3, Frame DEF CheckPause, TypeInv, TypeOK
<1>4. CASE RecordWorkerStopped
  <2>1. JobOK'
    BY <1>4, Frame DEF RecordWorkerStopped, SetJobStatus, Goto, TypeInv,
        TypeOK, JobOK, JobStatus
  <2>2. WorkerOK' /\ WorkerPosition'
    BY <1>4, GotoStep, Frame DEF RecordWorkerStopped, TypeInv, WorkerPc,
        WorkerPosition
  <2>3. QED
    BY <1>4, <2>1, <2>2, Frame DEF RecordWorkerStopped, TypeInv, TypeOK
<1>5. CASE MarkGroupActive
  <2>1. GroupsOK'
    BY <1>5, Frame DEF MarkGroupActive, SetGroup, Goto, TypeInv, TypeOK,
        GroupsOK, GroupDocs, NoHeader
  <2>2. WorkerOK' /\ WorkerPosition'
    BY <1>5, GotoStep, Frame DEF MarkGroupActive, TypeInv, WorkerPc,
        WorkerPosition
  <2>3. QED
    BY <1>5, <2>1, <2>2, Frame DEF MarkGroupActive, TypeInv, TypeOK
<1>6. CASE CompleteGroup
  <2>1. GroupsOK'
    BY <1>6, Frame DEF CompleteGroup, SetGroup, Goto, TypeInv, TypeOK,
        GroupsOK, GroupDocs, NoHeader
  <2>2. WorkerOK' /\ WorkerPosition'
    BY <1>6, GotoStep, Frame DEF CompleteGroup, TypeInv, WorkerPc,
        WorkerPosition
  <2>3. QED
    BY <1>6, <2>1, <2>2, Frame DEF CompleteGroup, TypeInv, TypeOK
<1>7. CASE CountGroup
  <2>1. JobOK'
    BY <1>7, Frame DEF CountGroup, Goto, TypeInv, TypeOK, JobOK, JobStatus
  <2>2. WorkerOK' /\ WorkerPosition'
    BY <1>7, GotoStep, Frame DEF CountGroup, TypeInv, WorkerPc, WorkerPosition
  <2>3. QED
    BY <1>7, <2>1, <2>2, Frame DEF CountGroup, TypeInv, TypeOK
<1>8. CASE MarkCompleted
  <2>1. JobOK'
    BY <1>8, Frame DEF MarkCompleted, SetJobStatus, Goto, TypeInv, TypeOK,
        JobOK, JobStatus
  <2>2. WorkerOK' /\ WorkerPosition'
    BY <1>8, GotoStep, Frame DEF MarkCompleted, TypeInv, WorkerPc,
        WorkerPosition
  <2>3. QED
    BY <1>8, <2>1, <2>2, Frame DEF MarkCompleted, TypeInv, TypeOK
<1>9. CASE FailJob
  <2>1. JobOK'
    BY <1>9, Frame DEF FailJob, SetJobStatus, Goto, isFinalAttempt, TypeInv,
        TypeOK, JobOK, JobStatus
  <2>2. WorkerOK' /\ WorkerPosition'
    BY <1>9, GotoStep, Frame DEF FailJob, isFinalAttempt, TypeInv, WorkerPc,
        WorkerPosition
  <2>3. QED
    BY <1>9, <2>1, <2>2, Frame DEF FailJob, TypeInv, TypeOK
<1>10. CASE CancelBatch
  <2>1. BatchOK'
    BY <1>10, Frame DEF CancelBatch, SetBatchStatus, Goto, TypeInv, TypeOK,
        BatchOK, BatchStatus
  <2>2. WorkerOK' /\ WorkerPosition'
    BY <1>10, GotoStep, Frame DEF CancelBatch, TypeInv, WorkerPc,
        WorkerPosition
  <2>3. QED
    BY <1>10, <2>1, <2>2, Frame DEF CancelBatch, TypeInv, TypeOK
<1>11. CASE Return
  <2>1. RedisOK'
    BY <1>11 DEF Return, TypeInv, TypeOK, RedisOK, RedisState
  <2>2. QED
    BY <1>11, <2>1, Frame DEF Return, TypeInv, TypeOK
<1>12. CASE Throw
  <2>1. RedisOK'
    <3>1. redis \in [state : RedisState, attempts : Nat, stalled : Nat]
      BY DEF TypeInv, TypeOK, RedisOK
    <3>2. CASE redis.state = "active" /\ redis.attempts + 1 < MaxAttempts
      <4>1. redis' = [redis EXCEPT !.attempts = redis.attempts + 1, !.state = "delayed"]
        BY <1>12, <3>2 DEF Throw
      <4>2. redis.attempts + 1 \in Nat
        BY <3>1
      <4>3. QED
        BY <3>1, <4>1, <4>2 DEF RedisOK, RedisState
    <3>3. CASE redis.state = "active" /\ ~(redis.attempts + 1 < MaxAttempts)
      <4>1. redis' = [redis EXCEPT !.attempts = redis.attempts + 1, !.state = "failed"]
        BY <1>12, <3>3 DEF Throw
      <4>2. redis.attempts + 1 \in Nat
        BY <3>1
      <4>3. QED
        BY <3>1, <4>1, <4>2 DEF RedisOK, RedisState
    <3>4. CASE redis.state # "active"
      BY <1>12, <3>1, <3>4 DEF Throw, RedisOK
    <3>5. QED
      BY <3>2, <3>3, <3>4
  <2>2. QED
    BY <1>12, <2>1, Frame DEF Throw, TypeInv, TypeOK
<1>13. QED
  BY <1>1, <1>2, <1>3, <1>4, <1>5, <1>6, <1>7, <1>8, <1>9, <1>10, <1>11, <1>12 DEF Processor

LEMMA PostGroupType ==
  ASSUME TypeInv, PostGroup
  PROVE  TypeInv'
<1> USE DEF TypeInv, TypeOK
<1>0. /\ worker \in Workers /\ fo \in Seq(Journals)
      /\ worker.created \in Seq(HeaderIds)
  BY DEF WorkerOK, FoOK, Workers
<1>1. CASE ReuseHeader
  <2> DEFINE h == worker.snap[worker.at].header
  <2>1. h \in HeaderIds
    BY <1>0, <1>1 DEF ReuseHeader, WorkerPosition, Workers, GroupDocs
  <2>2. Append(worker.created, h) \in Seq(HeaderIds)
    BY <1>0, <2>1
  <2> HIDE DEF h
  <2>3. worker' \in Workers
    BY <1>0, <1>1, <2>1, <2>2 DEF ReuseHeader, Workers, WorkerPc, h
  <2>4. worker'.pc = "lines" /\ worker'.at = worker.at /\ worker'.key \in HeaderIds
    BY <1>0, <1>1, <2>1 DEF ReuseHeader, Workers, h
  <2>5. WorkerOK' /\ WorkerPosition'
    BY <1>1, <2>3, <2>4, Frame DEF ReuseHeader, WorkerOK, WorkerPosition
  <2>6. QED
    BY <1>1, <2>5, Frame DEF ReuseHeader
<1>2. ASSUME worker.pc = "open", fo' = Append(fo, NewJournal(worker.at))
      PROVE  /\ FoOK' /\ Len(fo') = Len(fo) + 1 /\ Len(fo) + 1 \in HeaderIds'
             /\ worker.at \in Groups
  <2>1. worker.at \in Groups
    BY <1>2 DEF WorkerPosition
  <2>2. NewJournal(worker.at) \in Journals
    BY <2>1 DEF NewJournal, Journals, Lines
  <2>3. fo' \in Seq(Journals) /\ Len(fo') = Len(fo) + 1
    BY <1>0, <1>2, <2>2
  <2>4. QED
    BY <1>0, <2>1, <2>3 DEF FoOK, HeaderIds
<1>3. CASE CreateHeader
  <2>1. /\ FoOK' /\ Len(fo) <= Len(fo') /\ Len(fo) + 1 \in HeaderIds'
        /\ worker.at \in Groups
    BY <1>0, <1>2, <1>3 DEF CreateHeader
  <2>2. worker \in Workers'
    BY <1>0, <2>1, Grow
  <2>3. worker' \in Workers'
    BY <1>3, <2>1, <2>2 DEF CreateHeader, Workers, WorkerPc
  <2>4. worker'.pc = "record" /\ worker'.at = worker.at /\ worker'.key = Len(fo) + 1
    BY <1>0, <1>3 DEF CreateHeader, Workers
  <2>5. WorkerOK' /\ WorkerPosition'
    BY <2>1, <2>3, <2>4 DEF WorkerOK, WorkerPosition
  <2>6. QED
    BY <1>3, <2>1, <2>5, Grow DEF CreateHeader
<1>4. CASE CreateHeaderRejected
  <2>1. WorkerOK' /\ WorkerPosition'
    BY <1>4, GotoStep DEF CreateHeaderRejected, WorkerPc, WorkerPosition
  <2>2. QED
    BY <1>4, <2>1, Frame DEF CreateHeaderRejected
<1>5. CASE CreateHeaderUnanswered
  <2>1. FoOK' /\ Len(fo) <= Len(fo')
    BY <1>0, <1>2, <1>5 DEF CreateHeaderUnanswered
  <2>2. worker \in Workers'
    BY <1>0, <2>1, Grow
  <2>3. worker' \in Workers'
    BY <1>5, <2>2 DEF CreateHeaderUnanswered, Goto, Workers, WorkerPc
  <2>4. /\ worker'.pc \in {"open", "caught"} /\ worker'.at = worker.at
        /\ worker.at \in Groups
    BY <1>0, <1>5 DEF CreateHeaderUnanswered, Goto, Workers, WorkerPosition
  <2>5. WorkerOK' /\ WorkerPosition'
    BY <2>3, <2>4 DEF WorkerOK, WorkerPosition
  <2>6. RequestsOK'
    BY <1>5 DEF CreateHeaderUnanswered, Spend, RequestsOK
  <2>7. QED
    BY <1>5, <2>1, <2>5, <2>6, Grow DEF CreateHeaderUnanswered
<1>6. CASE SetCreatedHeader
  <2>1. worker.at \in Groups /\ worker.key \in HeaderIds
    BY <1>6 DEF SetCreatedHeader, WorkerPosition
  <2>2. [groups[worker.at] EXCEPT !.header = worker.key] \in GroupDocs
    BY <2>1 DEF GroupsOK, GroupDocs
  <2>3. GroupsOK'
    BY <1>6, <2>1, <2>2, SetGroupStep DEF SetCreatedHeader
  <2>4. Append(worker.created, worker.key) \in Seq(HeaderIds)
    BY <1>0, <2>1
  <2>5. worker' \in Workers
    BY <1>0, <1>6, <2>4 DEF SetCreatedHeader, Workers, WorkerPc
  <2>6. worker'.pc = "lines" /\ worker'.at = worker.at /\ worker'.key = worker.key
    BY <1>0, <1>6 DEF SetCreatedHeader, Workers
  <2>7. WorkerOK' /\ WorkerPosition'
    BY <1>6, <2>1, <2>5, <2>6, Frame
    DEF SetCreatedHeader, WorkerOK, WorkerPosition
  <2>8. QED
    BY <1>6, <2>3, <2>7, Frame DEF SetCreatedHeader
<1>7. ASSUME worker.key \in HeaderIds, NEW l \in Lines,
             fo' = [fo EXCEPT ![worker.key].lines = l]
      PROVE  FoOK' /\ Len(fo) = Len(fo')
  <2>1. fo[worker.key] \in Journals
    BY <1>7, JournalStep
  <2>2. [fo[worker.key] EXCEPT !.lines = l] \in Journals
    BY <2>1 DEF Journals
  <2>3. fo' = [fo EXCEPT ![worker.key] = [fo[worker.key] EXCEPT !.lines = l]]
    BY <1>7
  <2>4. QED
    BY <1>7, <2>2, <2>3, JournalStep
<1>8. CASE PostLines
  <2>1. FoOK' /\ Len(fo) = Len(fo')
    BY <1>7, <1>8 DEF PostLines, WorkerPosition, Lines
  <2>2. worker \in Workers'
    BY <1>0, <2>1, Grow
  <2>3. worker' \in Workers'
    BY <1>8, <2>2 DEF PostLines, Goto, Workers, WorkerPc
  <2>4. worker'.pc = "complete" /\ worker'.at = worker.at
    BY <1>0, <1>8 DEF PostLines, Goto, Workers
  <2>5. WorkerOK' /\ WorkerPosition'
    BY <1>8, <2>3, <2>4 DEF PostLines, WorkerOK, WorkerPosition
  <2>6. QED
    BY <1>0, <1>8, <2>1, <2>5, Grow DEF PostLines
<1>9. CASE PostLinesRejected
  <2>1. FoOK' /\ Len(fo) = Len(fo')
    BY <1>7, <1>9 DEF PostLinesRejected, WorkerPosition, FoOK, Lines
  <2>2. worker \in Workers'
    BY <1>0, <2>1, Grow
  <2>3. worker' \in Workers'
    BY <1>9, <2>2 DEF PostLinesRejected, Goto, Workers, WorkerPc
  <2>4. worker'.pc = "caught"
    BY <1>0, <1>9 DEF PostLinesRejected, Goto, Workers
  <2>5. WorkerOK' /\ WorkerPosition'
    BY <2>3, <2>4 DEF WorkerOK, WorkerPosition
  <2>6. QED
    BY <1>0, <1>9, <2>1, <2>5, Grow DEF PostLinesRejected
<1>10. CASE PostLinesRepeated
  <2>1. FoOK' /\ Len(fo) = Len(fo')
    BY <1>7, <1>10 DEF PostLinesRepeated, WorkerPosition, Lines
  <2>2. worker \in Workers'
    BY <1>0, <2>1, Grow
  <2>3. worker' \in Workers'
    BY <1>10, <2>2 DEF PostLinesRepeated, Goto, Workers, WorkerPc
  <2>4. worker'.pc = "complete" /\ worker'.at = worker.at
    BY <1>0, <1>10 DEF PostLinesRepeated, Goto, Workers
  <2>5. WorkerOK' /\ WorkerPosition'
    BY <1>10, <2>3, <2>4 DEF PostLinesRepeated, WorkerOK, WorkerPosition
  <2>6. RequestsOK'
    BY <1>10 DEF PostLinesRepeated, Spend, RequestsOK
  <2>7. QED
    BY <1>0, <1>10, <2>1, <2>5, <2>6, Grow DEF PostLinesRepeated
<1>11. QED
  BY <1>1, <1>3, <1>4, <1>5, <1>6, <1>8, <1>9, <1>10 DEF PostGroup

LEMMA RollBackType ==
  ASSUME TypeInv, RollBack
  PROVE  TypeInv'
<1> USE DEF TypeInv, TypeOK
<1>0. /\ worker \in Workers /\ fo \in Seq(Journals)
      /\ worker.created \in Seq(HeaderIds) /\ worker.undo \in Nat
  BY DEF WorkerOK, FoOK, Workers
<1>1. CASE StartRollback
  <2>1. Len(worker.created) \in Nat
    BY <1>0
  <2>2. /\ worker' \in Workers
        /\ worker'.pc \in {"fail", "rollback"}
        /\ worker'.undo = Len(worker'.created)
    <3>1. CASE worker.created = <<>>
      <4>1. worker' = [worker EXCEPT !.pc = "fail", !.undo = Len(worker.created)]
        BY <1>1, <3>1 DEF StartRollback
      <4>2. QED
        BY <1>0, <2>1, <4>1 DEF Workers, WorkerPc
    <3>2. CASE worker.created # <<>>
      <4>1. worker' = [worker EXCEPT !.pc = "rollback", !.undo = Len(worker.created)]
        BY <1>1, <3>2 DEF StartRollback
      <4>2. QED
        BY <1>0, <2>1, <4>1 DEF Workers, WorkerPc
    <3>3. QED
      BY <3>1, <3>2
  <2>3. WorkerOK'
    BY <1>1, <2>2, Frame DEF StartRollback, WorkerOK
  <2>4. Len(worker'.created) \in Nat
    BY <2>2 DEF Workers
  <2>5. WorkerPosition'
    BY <2>2, <2>4 DEF WorkerPosition
  <2>6. QED
    BY <1>1, <2>3, <2>5, Frame DEF StartRollback
<1>2. ASSUME worker.pc = "rollback", worker.undo > 0
      PROVE  worker.created[worker.undo] \in HeaderIds
  BY <1>0, <1>2 DEF WorkerPosition
<1>3. CASE RollbackLines
  <2> DEFINE h == worker.created[worker.undo]
  <2>1. h \in HeaderIds
    BY <1>2, <1>3 DEF RollbackLines
  <2>2. fo[h] \in Journals
    BY <2>1, JournalStep
  <2>3. PICK left \in Lines : fo' = [fo EXCEPT ![h] = [fo[h] EXCEPT !.lines = left]]
    BY <1>3 DEF RollbackLines, Lines
  <2>4. [fo[h] EXCEPT !.lines = left] \in Journals
    BY <2>2 DEF Journals
  <2>5. FoOK' /\ Len(fo) = Len(fo')
    BY <2>1, <2>3, <2>4, JournalStep
  <2>6. worker \in Workers' /\ HeaderIds \subseteq HeaderIds'
    BY <1>0, <2>5, Grow
  <2>7. UNCHANGED worker
    BY <1>3 DEF RollbackLines
  <2>8. WorkerOK' /\ WorkerPosition'
    BY <2>6, <2>7 DEF WorkerOK, WorkerPosition
  <2>9. QED
    BY <1>0, <1>3, <2>5, <2>8, Grow DEF RollbackLines
<1>4. CASE RollbackHeader
  <2> DEFINE h == worker.created[worker.undo]
  <2>1. h \in HeaderIds
    BY <1>2, <1>4 DEF RollbackHeader
  <2>2. [fo[h] EXCEPT !.live = FALSE] \in Journals
    BY <2>1, JournalStep DEF Journals
  <2>3. fo' = [fo EXCEPT ![h] = [fo[h] EXCEPT !.live = FALSE]]
    BY <1>4 DEF RollbackHeader
  <2>4. FoOK' /\ Len(fo) = Len(fo')
    BY <2>1, <2>2, <2>3, JournalStep
  <2>5. worker \in Workers'
    BY <1>0, <2>4, Grow
  <2>6. /\ worker' = [worker EXCEPT !.undo = worker.undo - 1]
        /\ worker.undo > 0 /\ worker.pc = "rollback"
    BY <1>4 DEF RollbackHeader
  <2>7. worker.undo - 1 \in Nat
    BY <1>0, <2>6
  <2>8. /\ worker' \in Workers'
        /\ worker'.undo = worker.undo - 1 /\ worker'.created = worker.created
        /\ worker'.pc = "rollback"
    BY <2>5, <2>6, <2>7 DEF Workers
  <2>9. WorkerOK' /\ WorkerPosition'
    BY <1>0, <2>6, <2>8 DEF WorkerOK, WorkerPosition
  <2>10. QED
    BY <1>0, <1>4, <2>4, <2>9, Grow DEF RollbackHeader
<1>5. CASE RetainHeader
  <2> DEFINE h == worker.created[worker.undo]
  <2>1. h \in HeaderIds
    BY <1>2, <1>5 DEF RetainHeader
  <2>2. [fo[h] EXCEPT !.kept = TRUE] \in Journals
    BY <2>1, JournalStep DEF Journals
  <2>3. fo' = [fo EXCEPT ![h] = [fo[h] EXCEPT !.kept = TRUE]]
    BY <1>5 DEF RetainHeader
  <2>4. FoOK' /\ Len(fo) = Len(fo')
    BY <2>1, <2>2, <2>3, JournalStep
  <2>5. worker \in Workers' /\ HeaderIds \subseteq HeaderIds'
    BY <1>0, <2>4, Grow
  <2>6. /\ worker' = [worker EXCEPT !.undo = worker.undo - 1,
                                   !.failed = worker.failed \cup {h}]
        /\ worker.undo > 0 /\ worker.pc = "rollback"
    BY <1>5 DEF RetainHeader
  <2> HIDE DEF h
  <2>7. worker.failed \cup {h} \in SUBSET HeaderIds'
    BY <1>0, <2>1, <2>5 DEF Workers
  <2>8. worker.undo - 1 \in Nat
    BY <1>0, <2>6
  <2>9. /\ worker' \in Workers'
        /\ worker'.undo = worker.undo - 1 /\ worker'.created = worker.created
        /\ worker'.pc = "rollback"
    BY <2>5, <2>6, <2>7, <2>8 DEF Workers, WorkerPc
  <2>10. WorkerOK' /\ WorkerPosition'
    BY <1>0, <2>6, <2>9 DEF WorkerOK, WorkerPosition
  <2>11. QED
    BY <1>0, <1>5, <2>4, <2>10, Grow DEF RetainHeader
<1>6. CASE RollbackDone
  <2>1. WorkerOK' /\ WorkerPosition'
    BY <1>6, GotoStep DEF RollbackDone, WorkerPc, WorkerPosition
  <2>2. QED
    BY <1>6, <2>1, Frame DEF RollbackDone
<1>7. CASE KeepRetainedIds
  <2>1. worker.failed \subseteq HeaderIds
    BY <1>0 DEF Workers
  <2>2. BatchOK'
    BY <1>7, <2>1, Frame DEF KeepRetainedIds, AddDfoIds, BatchOK
  <2>3. WorkerOK' /\ WorkerPosition'
    BY <1>7, GotoStep DEF KeepRetainedIds, WorkerPc, WorkerPosition
  <2>4. QED
    BY <1>7, <2>2, <2>3, Frame DEF KeepRetainedIds
<1>8. CASE ResetGroups
  <2>1. GroupsOK'
    <3>1. ASSUME NEW rec \in GroupDocs, NEW c, NEW r
          PROVE  AfterRollback(rec, c, r) \in GroupDocs
      BY DEF AfterRollback, GroupDocs, Pending, NoHeader
    <3>2. groups' = [g \in Groups |->
             IF groups[g].status = "absent" THEN groups[g]
             ELSE AfterRollback(groups[g], Created \ worker.failed, worker.failed)]
      BY <1>8 DEF ResetGroups, resetAfterRollback
    <3>3. QED
      BY <1>8, <3>1, <3>2, Frame DEF ResetGroups, GroupsOK
  <2>2. JobOK'
    <3>1. IsFiniteSet(Groups)
      BY DurableQueueAssumption, FS_Interval DEF DurableQueueAssumption, Groups
    <3>2. Cardinality({g \in Groups : groups'[g].status = "completed"}) \in Nat
      BY <3>1, FS_Subset, FS_CardinalityType
    <3>3. QED
      BY <1>8, <3>2 DEF ResetGroups, resetAfterRollback, JobOK
  <2>3. WorkerOK' /\ WorkerPosition'
    BY <1>8, GotoStep DEF ResetGroups, WorkerPc, WorkerPosition
  <2>4. QED
    BY <1>8, <2>1, <2>2, <2>3, Frame DEF ResetGroups
<1>9. QED
  BY <1>1, <1>3, <1>4, <1>5, <1>6, <1>7, <1>8 DEF RollBack

LEMMA SettleType ==
  ASSUME TypeInv, Settle
  PROVE  TypeInv'
<1>1. CASE StoreCreatedHeaderIds
  <2>1. BatchOK'
    <3>1. SnapshotHeaders \subseteq HeaderIds
      BY DEF TypeInv, TypeOK, WorkerOK, Workers, SnapshotHeaders, GroupDocs
    <3>2. Created \subseteq HeaderIds
      BY DEF TypeInv, TypeOK, WorkerOK, Workers, Created
    <3>3. QED
      BY <1>1, <3>1, <3>2, Frame DEF StoreCreatedHeaderIds, AddDfoIds, TypeInv,
         TypeOK, BatchOK
  <2>2. WorkerOK' /\ WorkerPosition'
    BY <1>1, GotoStep, Frame DEF StoreCreatedHeaderIds, TypeInv, WorkerPc,
        WorkerPosition
  <2>3. QED
    BY <1>1, <2>1, <2>2, Frame DEF StoreCreatedHeaderIds, TypeInv, TypeOK
<1>2. CASE SetPosted
  <2>1. BatchOK'
    BY <1>2, Frame DEF SetPosted, SetBatchStatus, Goto, TypeInv, TypeOK,
        BatchOK, BatchStatus
  <2>2. WorkerOK' /\ WorkerPosition'
    BY <1>2, GotoStep, Frame DEF SetPosted, TypeInv, WorkerPc, WorkerPosition
  <2>3. QED
    BY <1>2, <2>1, <2>2, Frame DEF SetPosted, TypeInv, TypeOK
<1>3. QED
  BY <1>1, <1>2 DEF Settle

LEMMA FailureType ==
  ASSUME TypeInv, StoreFault \/ Crash \/ Boot
  PROVE  TypeInv'
<1>1. CASE StoreFault
  <2>1. WorkerOK' /\ WorkerPosition'
    BY <1>1, GotoStep, Frame DEF StoreFault, TypeInv, WorkerPc, WorkerPosition
  <2>2. RequestsOK'
    BY <1>1, Frame DEF StoreFault, Spend, Goto, TypeInv, TypeOK, RequestsOK,
        SubPc, CtlPc
  <2>3. QED
    BY <1>1, <2>1, <2>2, Frame DEF StoreFault, TypeInv, TypeOK
<1>2. CASE Crash
  <2>1. RequestsOK'
    BY <1>2 DEF Crash, Spend, TypeInv, TypeOK, RequestsOK, SubPc, CtlPc
  <2>2. QED
    BY <1>2, <2>1, Frame DEF Crash, TypeInv, TypeOK
<1>3. CASE ReleaseRead
  <2>1. RequestsOK'
    BY <1>3, Frame DEF ReleaseRead, TypeInv, TypeOK, RequestsOK, SubPc, CtlPc
  <2>2. QED
    BY <1>3, <2>1, Frame DEF ReleaseRead, TypeInv, TypeOK
<1>4. CASE ForceRemove
  <2>1. RedisOK'
    <3>1. RedisOK
      BY DEF TypeInv, TypeOK
    <3>2. \/ redis' = NoRedisJob \/ redis' = redis
          \/ \E x \in {"delayed", "failed"} :
               redis' = [redis EXCEPT !.attempts = redis.attempts + 1, !.state = x]
      BY <1>4 DEF ForceRemove
    <3>3. CASE redis' = NoRedisJob \/ redis' = redis
      BY <3>1, <3>3 DEF NoRedisJob, RedisOK, RedisState
    <3>4. ASSUME NEW x \in {"delayed", "failed"},
                 redis' = [redis EXCEPT !.attempts = redis.attempts + 1, !.state = x]
          PROVE  RedisOK'
      <4>1. redis' = [state |-> x, attempts |-> redis.attempts + 1,
                      stalled |-> redis.stalled]
        BY <3>1, <3>4 DEF RedisOK
      <4>2. x \in RedisState /\ redis.attempts + 1 \in Nat /\ redis.stalled \in Nat
        BY <3>1 DEF RedisOK, RedisState
      <4>3. QED
        BY <4>1, <4>2 DEF RedisOK
    <3>5. QED
      BY <3>2, <3>3, <3>4
  <2>2. RequestsOK'
    BY <1>4, Frame DEF ForceRemove, NoRedisJob, TypeInv, TypeOK, RequestsOK,
        SubPc, CtlPc
  <2>3. QED
    BY <1>4, <2>1, <2>2, Frame DEF ForceRemove, TypeInv, TypeOK
<1>5. CASE Restore
  <2>1. RedisOK'
    BY <1>5, Frame DEF Restore, NewRedisJob, TypeInv, TypeOK, RedisOK,
        RedisState
  <2>2. RequestsOK'
    BY <1>5, Frame DEF Restore, NewRedisJob, TypeInv, TypeOK, RequestsOK,
        SubPc, CtlPc
  <2>3. QED
    BY <1>5, <2>1, <2>2, Frame DEF Restore, TypeInv, TypeOK
<1>6. QED
  BY <1>1, <1>2, <1>3, <1>4, <1>5 DEF Boot

LEMMA TypeInvStep == TypeInv /\ [Next]_vars => TypeInv'
<1> SUFFICES ASSUME TypeInv, [Next]_vars PROVE TypeInv'
  OBVIOUS
<1>1. CASE UNCHANGED vars
  BY <1>1, Frame DEF vars, TypeInv, TypeOK
<1>2. CASE Next
  BY <1>2, SubmitType, ControlType, BullType, ProcessorType, PostGroupType,
     RollBackType, SettleType, FailureType DEF Next
<1>3. QED
  BY <1>1, <1>2

(* Every variable keeps its type and every journal number kept anywhere is *)
(* one Finance has given out, whatever the requests, faults and crashes.   *)
THEOREM TypeCorrect == Spec => []TypeOK
<1>1. TypeInv => TypeOK
  BY DEF TypeInv
<1>2. QED
  BY <1>1, TypeInvInit, TypeInvStep, PTL DEF Spec
-----------------------------------------------------------------------------
(* Every group has its own journals.                                       *)

GroupOf(h) == fo[h].group

(* JournalsNotMixed is not inductive: the header written to a group comes  *)
(* from the snapshot or from the call the processor has just made, so      *)
(* these must belong to the group as well ...                              *)
OwnJournals ==
  /\ \A g \in Groups :
       groups[g].header # NoHeader => GroupOf(groups[g].header) = g
  /\ \A g \in Groups :
       worker.snap[g].header # NoHeader => GroupOf(worker.snap[g].header) = g
  /\ worker.pc = "record" => GroupOf(worker.key) = worker.at

(* ... and the list has no duplicate because it is ordered by group: the   *)
(* loop only goes up, and before a header is opened all those in the list  *)
(* belong to groups below.                                                 *)
OpensGroup == {"markGroup", "open", "record"}

InOrder ==
  /\ \A i \in 1..Len(worker.created) : GroupOf(worker.created[i]) <= worker.at
  /\ \A i, j \in 1..Len(worker.created) :
       i < j => GroupOf(worker.created[i]) < GroupOf(worker.created[j])
  /\ worker.pc \in OpensGroup =>
       \A i \in 1..Len(worker.created) : GroupOf(worker.created[i]) < worker.at

JournalInv == TypeInv /\ OwnJournals /\ InOrder

LEMMA JournalInvInit == Init => JournalInv
<1> SUFFICES ASSUME Init PROVE JournalInv
  OBVIOUS
<1>1. /\ worker.created = <<>> /\ worker.pc = "idle"
      /\ \A g \in Groups : worker.snap[g].header = NoHeader
      /\ \A g \in Groups : groups[g].header = NoHeader
  BY DEF Init, IdleWorker, NoGroups, Absent
<1>2. OwnJournals /\ InOrder
  BY <1>1 DEF OwnJournals, InOrder, OpensGroup
<1>3. QED
  BY <1>2, TypeInvInit DEF JournalInv

(* What the types say about the numbers this argument looks at.            *)
LEMMA Numbers ==
  ASSUME TypeInv
  PROVE  /\ \A h \in HeaderIds : GroupOf(h) \in Groups
         /\ worker.created \in Seq(HeaderIds) /\ Len(worker.created) \in Nat
         /\ \A i \in 1..Len(worker.created) : worker.created[i] \in HeaderIds
         /\ worker.at \in Nat
         /\ \A g \in Groups : /\ groups[g].header \in {NoHeader} \cup HeaderIds
                              /\ worker.snap[g].header \in {NoHeader} \cup HeaderIds
<1>1. \A h \in HeaderIds : fo[h] \in Journals
  BY JournalStep
<1>2. worker \in Workers /\ groups \in [Groups -> GroupDocs]
  BY DEF TypeInv, TypeOK, WorkerOK, GroupsOK
<1>3. worker.created \in Seq(HeaderIds)
  BY <1>2 DEF Workers
<1>4. worker.at \in 0..N /\ worker.snap \in [Groups -> GroupDocs]
  BY <1>2 DEF Workers
<1>5. \A d \in GroupDocs : d.header \in {NoHeader} \cup HeaderIds
  BY DEF GroupDocs
<1>6. QED
  BY <1>1, <1>2, <1>3, <1>4, <1>5 DEF Journals, GroupOf

(* The same journals belong to the same groups.                            *)
SameJournals == \A h \in HeaderIds : fo'[h].group = fo[h].group

(* Steps that do not give a group or the processor another header.         *)
KeepsHeaders ==
  \A g \in Groups : groups'[g].header \in {NoHeader, groups[g].header}

ForgetsRun == /\ worker'.created = <<>> /\ worker'.pc # "record"
              /\ \A g \in Groups : worker'.snap[g].header = NoHeader

KeepsRun == /\ worker'.created = worker.created /\ worker'.snap = worker.snap
            /\ worker'.at = worker.at /\ worker'.key = worker.key
            /\ worker'.pc \in OpensGroup => worker.pc \in OpensGroup
            /\ worker'.pc = "record" => worker.pc = "record"

LEMMA KeepStep ==
  ASSUME JournalInv, SameJournals, KeepsHeaders, ForgetsRun \/ KeepsRun
  PROVE  OwnJournals' /\ InOrder'
<1>1. \A g \in Groups :
        groups'[g].header # NoHeader => fo'[groups'[g].header].group = g
  BY Numbers DEF JournalInv, OwnJournals, SameJournals, KeepsHeaders, GroupOf
<1>2. CASE ForgetsRun
  BY <1>1, <1>2 DEF ForgetsRun, OwnJournals, InOrder, GroupOf, OpensGroup
<1>3. CASE KeepsRun
  <2>1. \A g \in Groups : worker'.snap[g].header # NoHeader
                            => fo'[worker'.snap[g].header].group = g
    BY <1>3, Numbers DEF KeepsRun, JournalInv, OwnJournals, SameJournals, GroupOf
  <2>2. worker'.pc = "record" => fo'[worker'.key].group = worker'.at
    BY <1>3 DEF KeepsRun, JournalInv, OwnJournals, SameJournals, GroupOf,
                TypeInv, WorkerPosition
  <2>3. \A i \in 1..Len(worker.created) :
          fo'[worker.created[i]].group = fo[worker.created[i]].group
    BY Numbers DEF JournalInv, SameJournals
  <2>4. InOrder'
    BY <1>3, <2>3 DEF KeepsRun, JournalInv, InOrder, GroupOf
  <2>5. QED
    BY <1>1, <2>1, <2>2, <2>4 DEF OwnJournals, GroupOf
<1>4. QED
  BY <1>2, <1>3

(* The processor adds a journal of the group it is at.                     *)
LEMMA AppendStep ==
  ASSUME JournalInv, UNCHANGED fo, worker.pc \in OpensGroup,
         NEW h \in HeaderIds, GroupOf(h) = worker.at,
         worker'.created = Append(worker.created, h),
         worker'.at = worker.at, worker'.pc = "lines"
  PROVE  InOrder'
<1>1. /\ worker.created \in Seq(HeaderIds) /\ worker.at \in Nat
      /\ \A i \in 1..Len(worker.created) : GroupOf(worker.created[i]) \in Nat
  <2>1. TypeInv
    BY DEF JournalInv
  <2>2. Groups \subseteq Nat
    BY DurableQueueAssumption DEF DurableQueueAssumption, Groups
  <2>3. QED
    BY <2>1, <2>2, Numbers
<1>2. /\ Len(worker'.created) = Len(worker.created) + 1
      /\ Len(worker.created) \in Nat
      /\ worker'.created[Len(worker.created) + 1] = h
      /\ \A i \in 1..Len(worker.created) : worker'.created[i] = worker.created[i]
  BY <1>1
<1>3. \A i \in 1..Len(worker.created) : GroupOf(worker.created[i]) < worker.at
  BY DEF JournalInv, InOrder
<1>4. \A i \in 1..Len(worker'.created) :
        i \in 1..Len(worker.created) \/ worker'.created[i] = h
  BY <1>2
<1>5. \A i \in 1..Len(worker'.created) : fo'[worker'.created[i]].group <= worker'.at
  <2>1. \A i \in 1..Len(worker.created) :
          worker'.created[i] = worker.created[i] /\ GroupOf(worker.created[i]) <= worker.at
    BY <1>1, <1>2, <1>3
  <2>2. \A i \in 1..Len(worker'.created) : GroupOf(worker'.created[i]) <= worker.at
    BY <1>1, <1>4, <2>1
  <2>3. QED
    BY <2>2 DEF GroupOf
<1>6. ASSUME NEW i \in 1..Len(worker'.created), NEW j \in 1..Len(worker'.created),
             i < j
      PROVE  fo'[worker'.created[i]].group < fo'[worker'.created[j]].group
  <2>1. i \in 1..Len(worker.created)
    BY <1>2, <1>6
  <2>2. CASE j \in 1..Len(worker.created)
    BY <1>2, <1>6, <2>1, <2>2 DEF JournalInv, InOrder, GroupOf
  <2>3. CASE worker'.created[j] = h
    BY <1>2, <1>3, <2>1, <2>3 DEF GroupOf
  <2>4. QED
    BY <1>4, <2>2, <2>3
<1>7. QED
  BY <1>5, <1>6 DEF InOrder, GroupOf, OpensGroup

(* Requests, BullMQ and the boot code only ever empty the groups.          *)
LEMMA OutsideStep ==
  ASSUME JournalInv,
         \/ \E s \in Submitters : Submit(s)
         \/ Control \/ PromoteDelayed \/ Stalled \/ Boot
  PROVE  OwnJournals' /\ InOrder'
<1>1. UNCHANGED <<fo, worker>>
  <2>1. ASSUME NEW s \in Submitters, Submit(s)
        PROVE  UNCHANGED <<fo, worker>>
    BY <2>1 DEF Submit, SubmitValidate, SubmitPrepare, SubmitLookup,
       SubmitMarkPosted, SubmitRemoveFailed, SubmitStorePrepare,
       ReplaceDeleteGroups, ReplaceInsertGroups, ReplaceUpsertJob, SubmitAdd
  <2>2. ASSUME Control
        PROVE  UNCHANGED <<fo, worker>>
    BY <2>2 DEF Control, PauseRead, PauseSet, ResumeRead, ResumeClear,
       ResumeFindJob, RequeueCheck, RequeueAdd, MarkQueued, DeleteRead,
       DeletePause, DeleteRedisJob, DeletePurge, DeleteBatch
  <2>3. QED
    BY <2>1, <2>2 DEF PromoteDelayed, Stalled, Boot, ReleaseRead, ForceRemove,
       Restore
<1>2. UNCHANGED groups \/ groups' = NoGroups \/ groups' = [g \in Groups |-> Pending]
  <2>1. ASSUME NEW s \in Submitters, Submit(s)
        PROVE  \/ UNCHANGED groups \/ groups' = NoGroups
               \/ groups' = [g \in Groups |-> Pending]
    BY <2>1 DEF Submit, SubmitValidate, SubmitPrepare, SubmitLookup,
       SubmitMarkPosted, SubmitRemoveFailed, SubmitStorePrepare,
       ReplaceDeleteGroups, ReplaceInsertGroups, ReplaceUpsertJob, SubmitAdd
  <2>2. ASSUME Control
        PROVE  UNCHANGED groups \/ groups' = NoGroups
    BY <2>2 DEF Control, PauseRead, PauseSet, ResumeRead, ResumeClear,
       ResumeFindJob, RequeueCheck, RequeueAdd, MarkQueued, DeleteRead,
       DeletePause, DeleteRedisJob, DeletePurge, DeleteBatch
  <2>3. QED
    BY <2>1, <2>2 DEF PromoteDelayed, Stalled, Boot, ReleaseRead, ForceRemove,
       Restore
<1>3. KeepsHeaders
  BY <1>2 DEF KeepsHeaders, NoGroups, Absent, Pending
<1>4. SameJournals /\ KeepsRun
  BY <1>1 DEF SameJournals, KeepsRun
<1>5. QED
  BY <1>3, <1>4, KeepStep

(* A processor that only moves keeps its journals, unless it moves to a    *)
(* place where a header is opened.                                         *)
LEMMA GotoKeepsRun ==
  ASSUME TypeInv, NEW p \in WorkerPc \ OpensGroup, Goto(p)
  PROVE  KeepsRun
<1>1. worker \in Workers
  BY DEF TypeInv, TypeOK, WorkerOK
<1>2. QED
  BY <1>1 DEF KeepsRun, Goto, Workers, OpensGroup

(* Changing anything but the header of a group.                            *)
LEMMA SetGroupKeepsHeaders ==
  ASSUME TypeInv, NEW g \in Groups, NEW r, r.header = groups[g].header,
         SetGroup(g, r)
  PROVE  KeepsHeaders
<1>1. groups \in [Groups -> GroupDocs]
  BY DEF TypeInv, TypeOK, GroupsOK
<1>2. QED
  BY <1>1 DEF SetGroup, KeepsHeaders

LEMMA ProcessorStep ==
  ASSUME JournalInv, PickUp \/ Processor \/ StoreFault \/ Crash
  PROVE  OwnJournals' /\ InOrder'
<1>0. TypeInv /\ worker \in Workers /\ groups \in [Groups -> GroupDocs]
  BY DEF JournalInv, TypeInv, TypeOK, WorkerOK, GroupsOK
<1>1. UNCHANGED fo /\ SameJournals
  BY DEF PickUp, Processor, MarkActive, ListGroups, CheckPause,
     RecordWorkerStopped, MarkGroupActive, CompleteGroup, CountGroup,
     MarkCompleted, FailJob, CancelBatch, Return, Throw, StoreFault, Crash,
     SameJournals
<1>2. UNCHANGED groups => KeepsHeaders
  BY DEF KeepsHeaders
<1>3. ASSUME worker' = IdleWorker \/ PickUp
      PROVE  ForgetsRun
  <2>1. /\ IdleWorker.created = <<>> /\ IdleWorker.pc = "idle"
        /\ \A g \in Groups : IdleWorker.snap[g].header = NoHeader
    BY DEF IdleWorker, NoGroups, Absent
  <2>2. CASE worker' = IdleWorker
    BY <2>1, <2>2 DEF ForgetsRun
  <2>3. CASE PickUp
    <3>1. /\ worker'.created = IdleWorker.created
          /\ worker'.snap = IdleWorker.snap /\ worker'.pc = "start"
      BY <2>3, IdleWorkerType DEF PickUp, Workers
    <3>2. QED
      BY <2>1, <3>1 DEF ForgetsRun
  <2>4. QED
    BY <1>3, <2>2, <2>3
<1>4. CASE PickUp
  BY <1>1, <1>2, <1>3, <1>4, KeepStep DEF PickUp
<1>5. CASE Return \/ Throw \/ Crash
  BY <1>1, <1>2, <1>3, <1>5, KeepStep DEF Return, Throw, Crash
<1>6. CASE \/ MarkActive \/ RecordWorkerStopped \/ CountGroup \/ MarkCompleted
           \/ FailJob \/ CancelBatch \/ StoreFault
  <2>1. UNCHANGED groups
    BY <1>6 DEF MarkActive, RecordWorkerStopped, CountGroup, MarkCompleted,
       FailJob, CancelBatch, StoreFault
  <2>2. \E p \in WorkerPc \ OpensGroup : Goto(p)
    BY <1>6 DEF MarkActive, RecordWorkerStopped, CountGroup, MarkCompleted,
       FailJob, CancelBatch, StoreFault, WorkerPc, OpensGroup
  <2>3. QED
    BY <1>0, <1>1, <1>2, <2>1, <2>2, GotoKeepsRun, KeepStep
<1>7. CASE MarkGroupActive
  <2>1. KeepsHeaders
    <3>1. worker.at \in Groups
      BY <1>0, <1>7 DEF MarkGroupActive, TypeInv, WorkerPosition
    <3>2. [groups[worker.at] EXCEPT !.status = "active"].header
            = groups[worker.at].header
      BY <1>0, <3>1 DEF GroupDocs
    <3>3. QED
      BY <1>0, <1>7, <3>1, <3>2, SetGroupKeepsHeaders DEF MarkGroupActive
  <2>2. KeepsRun
    BY <1>0, <1>7 DEF MarkGroupActive, Goto, KeepsRun, Workers, OpensGroup
  <2>3. QED
    BY <1>1, <2>1, <2>2, KeepStep
<1>8. CASE CompleteGroup
  <2>1. KeepsHeaders
    <3>1. worker.at \in Groups
      BY <1>0, <1>8 DEF CompleteGroup, TypeInv, WorkerPosition
    <3>2. [groups[worker.at] EXCEPT !.status = "completed"].header
            = groups[worker.at].header
      BY <1>0, <3>1 DEF GroupDocs
    <3>3. QED
      BY <1>0, <1>8, <3>1, <3>2, SetGroupKeepsHeaders DEF CompleteGroup
  <2>2. \E p \in WorkerPc \ OpensGroup : Goto(p)
    BY <1>8 DEF CompleteGroup, WorkerPc, OpensGroup
  <2>3. QED
    BY <1>0, <1>1, <2>1, <2>2, GotoKeepsRun, KeepStep
<1>9. CASE ListGroups
  <2>1. PICK p \in {"fail", "check"} :
          worker' = [worker EXCEPT !.snap = groups, !.pc = p]
    BY <1>9 DEF ListGroups
  <2>2. /\ worker'.snap = groups /\ worker'.pc = p
        /\ worker'.created = worker.created /\ worker'.at = worker.at
    BY <1>0, <2>1 DEF Workers
  <2>3. UNCHANGED <<groups, fo>>
    BY <1>9 DEF ListGroups
  <2>4. QED
    BY <2>2, <2>3 DEF JournalInv, OwnJournals, InOrder, GroupOf, OpensGroup
<1>10. CASE CheckPause
  <2>1. UNCHANGED groups
    BY <1>10 DEF CheckPause
  <2>2. CASE Goto("settle") \/ Goto("stop")
    <3>1. \E p \in WorkerPc \ OpensGroup : Goto(p)
      BY <2>2 DEF WorkerPc, OpensGroup
    <3>2. QED
      BY <1>0, <1>1, <1>2, <2>1, <3>1, GotoKeepsRun, KeepStep
  <2>3. CASE \E g \in Unposted : worker' = [worker EXCEPT !.pc = "markGroup", !.at = g]
    <3>1. PICK g \in Unposted : worker' = [worker EXCEPT !.pc = "markGroup", !.at = g]
      BY <2>3
    <3>2. /\ worker'.snap = worker.snap /\ worker'.pc = "markGroup"
          /\ worker'.created = worker.created /\ worker'.at = g
      BY <1>0, <3>1 DEF Workers
    <3>3. g \in Nat /\ worker.at \in Nat /\ worker.at < g
      BY <1>0, <3>1, DurableQueueAssumption
      DEF Unposted, Groups, Workers, DurableQueueAssumption
    <3>4. \A i \in 1..Len(worker.created) :
            GroupOf(worker.created[i]) \in Nat /\ GroupOf(worker.created[i]) < g
      <4>1. Groups \subseteq Nat
        BY DurableQueueAssumption DEF DurableQueueAssumption, Groups
      <4>2. \A i \in 1..Len(worker.created) :
              GroupOf(worker.created[i]) \in Nat /\ GroupOf(worker.created[i]) <= worker.at
        BY <1>0, <4>1, Numbers DEF JournalInv, InOrder
      <4>3. QED
        BY <3>3, <4>2
    <3>5. OwnJournals'
      BY <1>1, <2>1, <3>2 DEF JournalInv, OwnJournals, GroupOf
    <3>6. InOrder'
      BY <1>1, <3>2, <3>3, <3>4 DEF JournalInv, InOrder, GroupOf, OpensGroup
    <3>7. QED
      BY <3>5, <3>6
  <2>4. QED
    BY <1>10, <2>2, <2>3 DEF CheckPause
<1>11. QED
  BY <1>4, <1>5, <1>6, <1>7, <1>8, <1>9, <1>10 DEF Processor

(* Finance never gives a journal to another group: a new one is appended,  *)
(* the others only change their lines, or go.                              *)
LEMMA JournalsStay ==
  ASSUME TypeInv, PostGroup \/ RollBack \/ Settle
  PROVE  SameJournals
<1>1. fo \in Seq(Journals) /\ \A h \in HeaderIds : h \in 1..Len(fo)
  BY DEF TypeInv, TypeOK, FoOK, HeaderIds
<1>2. CASE UNCHANGED fo
  BY <1>2 DEF SameJournals
<1>3. CASE fo' = Append(fo, NewJournal(worker.at))
  BY <1>1, <1>3 DEF SameJournals
<1>4. CASE \E h \in HeaderIds : \E r \in Journals :
             r.group = fo[h].group /\ fo' = [fo EXCEPT ![h] = r]
  BY <1>1, <1>4 DEF SameJournals
<1>5. ASSUME NEW h \in HeaderIds, NEW l \in Lines, fo' = [fo EXCEPT ![h].lines = l]
      PROVE  SameJournals
  <2>1. fo[h] \in Journals
    BY JournalStep
  <2>2. [fo[h] EXCEPT !.lines = l] \in Journals
    BY <2>1 DEF Journals
  <2>3. [fo[h] EXCEPT !.lines = l].group = fo[h].group
    BY <2>1 DEF Journals
  <2>4. QED
    BY <1>4, <1>5, <2>2, <2>3
<1>6. CASE PostLines
  BY <1>5, <1>6 DEF PostLines, TypeInv, WorkerPosition, Lines
<1>7. CASE PostLinesRejected
  BY <1>2, <1>5, <1>7 DEF PostLinesRejected, TypeInv, WorkerPosition, Lines
<1>8. ASSUME worker.pc = "rollback", worker.undo > 0
      PROVE  worker.created[worker.undo] \in HeaderIds
  <2>1. worker.created \in Seq(HeaderIds) /\ worker.undo \in Nat
    BY DEF TypeInv, TypeOK, WorkerOK, Workers
  <2>2. QED
    BY <1>8, <2>1 DEF TypeInv, WorkerPosition
<1>9. CASE RollbackHeader
  <2> DEFINE h == worker.created[worker.undo]
  <2>1. h \in HeaderIds /\ fo[h] \in Journals
    BY <1>8, <1>9, JournalStep DEF RollbackHeader
  <2>2. /\ [fo[h] EXCEPT !.live = FALSE] \in Journals
        /\ [fo[h] EXCEPT !.live = FALSE].group = fo[h].group
    BY <2>1 DEF Journals
  <2>3. fo' = [fo EXCEPT ![h] = [fo[h] EXCEPT !.live = FALSE]]
    BY <1>9 DEF RollbackHeader
  <2>4. QED
    BY <1>4, <2>1, <2>2, <2>3
<1>10. CASE RetainHeader
  <2> DEFINE h == worker.created[worker.undo]
  <2>1. h \in HeaderIds /\ fo[h] \in Journals
    BY <1>8, <1>10, JournalStep DEF RetainHeader
  <2>2. /\ [fo[h] EXCEPT !.kept = TRUE] \in Journals
        /\ [fo[h] EXCEPT !.kept = TRUE].group = fo[h].group
    BY <2>1 DEF Journals
  <2>3. fo' = [fo EXCEPT ![h] = [fo[h] EXCEPT !.kept = TRUE]]
    BY <1>10 DEF RetainHeader
  <2>4. QED
    BY <1>4, <2>1, <2>2, <2>3
<1>11. CASE RollbackLines
  BY <1>5, <1>8, <1>11 DEF RollbackLines, Lines
<1>12. CASE PostLinesRepeated
  BY <1>5, <1>12 DEF PostLinesRepeated, TypeInv, WorkerPosition, Lines
<1>13. QED
  BY <1>2, <1>3, <1>6, <1>7, <1>9, <1>10, <1>11, <1>12 DEF PostGroup, ReuseHeader,
     CreateHeader, CreateHeaderRejected, CreateHeaderUnanswered,
     SetCreatedHeader, RollBack, StartRollback, RollbackDone, KeepRetainedIds,
     ResetGroups, Settle, StoreCreatedHeaderIds, SetPosted

LEMMA PostGroupStep ==
  ASSUME JournalInv, PostGroup
  PROVE  OwnJournals' /\ InOrder'
<1>0. /\ TypeInv /\ worker \in Workers /\ groups \in [Groups -> GroupDocs]
      /\ fo \in Seq(Journals)
  BY DEF JournalInv, TypeInv, TypeOK, WorkerOK, GroupsOK, FoOK
<1>1. SameJournals
  BY <1>0, JournalsStay
<1>2. UNCHANGED groups => KeepsHeaders
  BY DEF KeepsHeaders
<1>3. CASE ReuseHeader
  <2> DEFINE h == worker.snap[worker.at].header
  <2>1. worker.at \in Groups /\ worker.pc \in OpensGroup
    BY <1>0, <1>3 DEF ReuseHeader, TypeInv, WorkerPosition, OpensGroup
  <2>2. h \in HeaderIds /\ GroupOf(h) = worker.at
    BY <1>0, <1>3, <2>1, Numbers DEF ReuseHeader, JournalInv, OwnJournals
  <2>3. /\ worker'.created = Append(worker.created, h) /\ worker'.pc = "lines"
        /\ worker'.at = worker.at /\ worker'.snap = worker.snap
    BY <1>0, <1>3 DEF ReuseHeader, Workers
  <2>4. UNCHANGED <<fo, groups>>
    BY <1>3 DEF ReuseHeader
  <2>5. OwnJournals'
    BY <2>3, <2>4 DEF JournalInv, OwnJournals, GroupOf
  <2>6. QED
    BY <2>1, <2>2, <2>3, <2>4, <2>5, AppendStep
<1>4. CASE SetCreatedHeader
  <2>1. /\ worker.at \in Groups /\ worker.pc \in OpensGroup
        /\ worker.key \in HeaderIds /\ GroupOf(worker.key) = worker.at
    BY <1>0, <1>4
    DEF SetCreatedHeader, TypeInv, WorkerPosition, OpensGroup, JournalInv, OwnJournals
  <2>2. /\ worker'.created = Append(worker.created, worker.key)
        /\ worker'.pc = "lines" /\ worker'.at = worker.at
        /\ worker'.snap = worker.snap
    BY <1>0, <1>4 DEF SetCreatedHeader, Workers
  <2>3. UNCHANGED fo
    BY <1>4 DEF SetCreatedHeader
  <2>4. [groups[worker.at] EXCEPT !.header = worker.key].header = worker.key
    BY <1>0, <2>1 DEF GroupDocs
  <2>5. \A g \in Groups : \/ groups'[g] = groups[g]
                          \/ g = worker.at /\ groups'[g].header = worker.key
    BY <1>0, <1>4, <2>1, <2>4 DEF SetCreatedHeader, SetGroup
  <2>6. OwnJournals'
    BY <2>1, <2>2, <2>3, <2>5 DEF JournalInv, OwnJournals, GroupOf
  <2>7. QED
    BY <2>1, <2>2, <2>3, <2>6, AppendStep
<1>5. CASE CreateHeader
  <2>1. UNCHANGED groups /\ worker.at \in Groups /\ worker.pc = "open"
    BY <1>0, <1>5 DEF CreateHeader, TypeInv, WorkerPosition
  <2>2. /\ worker'.created = worker.created /\ worker'.snap = worker.snap
        /\ worker'.at = worker.at /\ worker'.pc = "record"
        /\ worker'.key = Len(fo) + 1
    BY <1>0, <1>5 DEF CreateHeader, Workers
  <2>3. fo'[worker'.key].group = worker'.at
    BY <1>0, <1>5, <2>2 DEF CreateHeader, NewJournal
  <2>4. \A g \in Groups : /\ groups[g].header \in {NoHeader} \cup HeaderIds
                          /\ worker.snap[g].header \in {NoHeader} \cup HeaderIds
    BY <1>0, Numbers
  <2>5. OwnJournals'
    BY <1>1, <2>1, <2>2, <2>3, <2>4 DEF JournalInv, OwnJournals, GroupOf, SameJournals
  <2>6. \A i \in 1..Len(worker.created) :
          fo'[worker.created[i]].group = fo[worker.created[i]].group
    BY <1>0, <1>1, Numbers DEF SameJournals
  <2>7. InOrder'
    BY <2>1, <2>2, <2>6 DEF JournalInv, InOrder, GroupOf, OpensGroup
  <2>8. QED
    BY <2>5, <2>7
<1>6. CASE \/ CreateHeaderRejected \/ CreateHeaderUnanswered \/ PostLines
           \/ PostLinesRepeated \/ PostLinesRejected
  <2>1. UNCHANGED groups
    BY <1>6 DEF CreateHeaderRejected, CreateHeaderUnanswered, PostLines,
       PostLinesRepeated, PostLinesRejected
  <2>2. UNCHANGED worker \/ \E p \in WorkerPc \ OpensGroup : Goto(p)
    BY <1>6 DEF CreateHeaderRejected, CreateHeaderUnanswered, PostLines,
       PostLinesRepeated, PostLinesRejected, WorkerPc, OpensGroup
  <2>3. KeepsRun
    BY <1>0, <2>2, GotoKeepsRun DEF KeepsRun
  <2>4. QED
    BY <1>1, <1>2, <2>1, <2>3, KeepStep
<1>7. QED
  BY <1>3, <1>4, <1>5, <1>6 DEF PostGroup

(* Rolling back and settling give nobody another header.                   *)
LEMMA EndStep ==
  ASSUME JournalInv, RollBack \/ Settle
  PROVE  OwnJournals' /\ InOrder'
<1>0. TypeInv /\ worker \in Workers /\ groups \in [Groups -> GroupDocs]
  BY DEF JournalInv, TypeInv, TypeOK, WorkerOK, GroupsOK
<1>1. SameJournals
  BY <1>0, JournalsStay
<1>2. KeepsRun
  <2>1. CASE StartRollback
    BY <1>0, <2>1 DEF StartRollback, KeepsRun, Workers, OpensGroup
  <2>2. CASE RollbackHeader \/ RetainHeader
    BY <1>0, <2>2 DEF RollbackHeader, RetainHeader, KeepsRun, Workers, OpensGroup
  <2>3. CASE RollbackDone \/ KeepRetainedIds \/ ResetGroups \/ Settle
    <3>1. \E p \in WorkerPc \ OpensGroup : Goto(p)
      BY <2>3 DEF RollbackDone, KeepRetainedIds, ResetGroups, Settle,
         StoreCreatedHeaderIds, SetPosted, WorkerPc, OpensGroup
    <3>2. QED
      BY <1>0, <3>1, GotoKeepsRun
  <2>4. CASE RollbackLines
    BY <2>4 DEF RollbackLines, KeepsRun
  <2>5. QED
    BY <2>1, <2>2, <2>3, <2>4 DEF RollBack
<1>3. KeepsHeaders
  <2>1. CASE ResetGroups
    <3>1. ASSUME NEW rec \in GroupDocs, NEW c, NEW r
          PROVE  AfterRollback(rec, c, r).header \in {NoHeader, rec.header}
      BY DEF AfterRollback, GroupDocs, Pending
    <3>2. QED
      BY <1>0, <2>1, <3>1 DEF ResetGroups, resetAfterRollback, KeepsHeaders
  <2>2. CASE UNCHANGED groups
    BY <2>2 DEF KeepsHeaders
  <2>3. QED
    BY <2>1, <2>2 DEF RollBack, StartRollback, RollbackLines, RollbackHeader,
       RetainHeader, RollbackDone, KeepRetainedIds, Settle, StoreCreatedHeaderIds, SetPosted
<1>4. QED
  BY <1>1, <1>2, <1>3, KeepStep

LEMMA JournalInvStep == JournalInv /\ [Next]_vars => JournalInv'
<1> SUFFICES ASSUME JournalInv, [Next]_vars PROVE JournalInv'
  OBVIOUS
<1>1. TypeInv'
  BY TypeInvStep DEF JournalInv
<1>2. CASE UNCHANGED vars
  BY <1>1, <1>2 DEF vars, JournalInv, OwnJournals, InOrder, GroupOf
<1>3. CASE Next
  <2>1. OwnJournals' /\ InOrder'
    BY <1>3, OutsideStep, ProcessorStep, PostGroupStep, EndStep DEF Next
  <2>2. QED
    BY <1>1, <2>1 DEF JournalInv
<1>4. QED
  BY <1>2, <1>3

(* A durable group never points at the journal of another group, and a     *)
(* processor run never has a header twice in the list it rolls back        *)
(* (setCreatedHeader, resetAfterRollback, rollbackAll).                    *)
THEOREM JournalsNeverMixed == Spec => []JournalsNotMixed
<1>1. JournalInv => JournalsNotMixed
  <2> SUFFICES ASSUME JournalInv PROVE JournalsNotMixed
    OBVIOUS
  <2>1. Len(worker.created) \in Nat
    BY Numbers DEF JournalInv
  <2>2. \A i \in 1..Len(worker.created) : GroupOf(worker.created[i]) \in Nat
    <3>1. Groups \subseteq Nat
      BY DurableQueueAssumption DEF DurableQueueAssumption, Groups
    <3>2. QED
      BY <3>1, Numbers DEF JournalInv
  <2>3. \A i, j \in 1..Len(worker.created) :
          i < j => worker.created[i] # worker.created[j]
    BY <2>2 DEF JournalInv, InOrder
  <2>4. \A i, j \in 1..Len(worker.created) :
          i # j => worker.created[i] # worker.created[j]
    BY <2>1, <2>3
  <2>5. QED
    BY <2>4 DEF JournalInv, OwnJournals, JournalsNotMixed, GroupOf
<1>2. QED
  BY <1>1, JournalInvInit, JournalInvStep, PTL DEF Spec
-----------------------------------------------------------------------------
(* What nobody knows of is empty and counted.                              *)

(* A deletion under way has been counted.                                  *)
DeletesCounted ==
  ctl \in {"deletePause", "deleteRedis", "deletePurge", "deleteBatch"}
    => spent.deletes > 0

(* What the rollback has passed is gone, or on the list of what Finance    *)
(* refused to delete.                                                      *)
Undone(h) == ~fo[h].live \/ h \in worker.failed

RollbackInv ==
  /\ worker.pc = "rollback" =>
       \A i \in 1..Len(worker.created) : i > worker.undo => Undone(worker.created[i])
  /\ worker.pc \in {"keepIds", "reset"} =>
       \A i \in 1..Len(worker.created) : Undone(worker.created[i])

(* With one request, nothing happens to the groups before the job is       *)
(* stored, and from then on nobody but the processor touches them.         *)
BeforeJob == {"prepare", "lookup", "storePrepare", "deleteGroups",
              "insertGroups", "upsertJob"}
Present == \A g \in Groups : groups[g].status # "absent"

RequestInv ==
  /\ \A s, t \in Submitters : subs[s] # "idle" /\ subs[t] # "idle" => s = t
  /\ spent.submits = 0 =>
       job.status = "none" /\ \A s \in Submitters : subs[s] = "idle"
  /\ \A s \in Submitters :
       /\ subs[s] \in BeforeJob \cup {"idle", "add"}
       /\ subs[s] \in BeforeJob => job.status = "none"
       /\ subs[s] = "upsertJob" => Present
       /\ subs[s] = "add" => job.status # "none"
  /\ ctl \in {"requeueCheck", "requeueAdd", "markQueued"} => job.status # "none"
  /\ job.status = "none" =>
       fo = <<>> /\ worker.pc = "idle" /\ redis.state = "absent"
  /\ job.status # "none" => Present

(* So the groups the processor has yet to reach carry the headers of its   *)
(* snapshot, and a header it works with is recorded.                       *)
Loop == {"check", "markGroup", "open", "record", "lines", "complete", "count"}

HeaderInv ==
  /\ worker.pc \in Loop =>
       \A g \in Groups : g > worker.at => groups[g].header = worker.snap[g].header
  /\ worker.pc \in {"markGroup", "open"} =>
       groups[worker.at].header = worker.snap[worker.at].header
  /\ worker.pc = "record" =>
       groups[worker.at].header = NoHeader /\ fo[worker.key].lines = "none"
  /\ worker.pc = "lines" => worker.key \in Created
  /\ Created \cap Live \subseteq Recorded

Orphans == Live \ Known

OrphanInv ==
  /\ Cardinality(Orphans) <= spent.faults + spent.crashes
  /\ \A h \in Orphans : fo[h].lines = "none"

KnownInv ==
  /\ JournalInv
  /\ DeletesCounted
  /\ RollbackInv
  /\ Intact => RequestInv /\ HeaderInv /\ OrphanInv

-----------------------------------------------------------------------------
(* What was purged stays purged.                                           *)
LEMMA IntactBefore ==
  ASSUME TypeInv, DeletesCounted, Next
  PROVE  DeletesCounted' /\ (Intact' => Intact)
<1>0. /\ spent \in [submits : Nat, pauses : Nat, deletes : Nat, faults : Nat,
                    crashes : Nat]
      /\ batch.exists \in BOOLEAN
      /\ batch = [exists |-> batch.exists, status |-> batch.status,
                  paused |-> batch.paused, dfoIds |-> batch.dfoIds]
  BY DEF TypeInv, TypeOK, RequestsOK, BatchOK
<1>1. ASSUME UNCHANGED <<ctl, spent>>, batch'.exists = batch.exists
      PROVE  DeletesCounted' /\ (Intact' => Intact)
  BY <1>1 DEF DeletesCounted, Intact
<1>2. ASSUME NEW s \in Submitters, Submit(s)
      PROVE  DeletesCounted' /\ (Intact' => Intact)
  <2>1. batch'.exists = batch.exists
    BY <1>0, <1>2 DEF Submit, SubmitValidate, SubmitPrepare, SubmitLookup,
     SubmitMarkPosted, SubmitRemoveFailed, SubmitStorePrepare,
     ReplaceDeleteGroups, ReplaceInsertGroups, ReplaceUpsertJob, SubmitAdd, SetBatchStatus
  <2>2. CASE SubmitValidate(s)
    <3>1. /\ UNCHANGED ctl /\ spent'.deletes = spent.deletes
          /\ spent'.crashes = spent.crashes /\ spent'.submits = spent.submits + 1
      BY <1>0, <2>2 DEF SubmitValidate, Spend
    <3>2. QED
      BY <1>0, <2>1, <3>1 DEF DeletesCounted, Intact
  <2>3. CASE ~SubmitValidate(s)
    <3>1. UNCHANGED <<ctl, spent>>
      BY <1>2, <2>3 DEF Submit, SubmitPrepare, SubmitLookup,
       SubmitMarkPosted, SubmitRemoveFailed, SubmitStorePrepare,
       ReplaceDeleteGroups, ReplaceInsertGroups, ReplaceUpsertJob, SubmitAdd
    <3>2. QED
      BY <1>1, <2>1, <3>1
  <2>4. QED
    BY <2>2, <2>3
<1>3. ASSUME Control
      PROVE  DeletesCounted' /\ (Intact' => Intact)
  <2>1. CASE PauseRead \/ DeleteRead
    <3>1. /\ UNCHANGED batch /\ spent'.deletes >= spent.deletes
          /\ spent'.crashes = spent.crashes /\ spent'.submits = spent.submits
          /\ ctl = "idle" /\ ctl' \in {"pauseSet", "deletePause"}
          /\ ctl' = "deletePause" => spent'.deletes > 0
      BY <1>0, <2>1 DEF PauseRead, DeleteRead, Spend
    <3>2. QED
      BY <1>0, <3>1 DEF DeletesCounted, Intact
  <2>2. CASE PauseSet \/ ResumeRead \/ ResumeClear \/ ResumeFindJob
             \/ RequeueCheck \/ RequeueAdd \/ MarkQueued
    <3>1. /\ UNCHANGED spent /\ batch'.exists = batch.exists
          /\ ctl # "deleteBatch"
          /\ ctl' \in {"idle", "resumeClear", "resumeFind", "requeueCheck",
                       "requeueAdd", "markQueued"}
      BY <1>0, <2>2 DEF PauseSet, ResumeRead, ResumeClear, ResumeFindJob,
         RequeueCheck, RequeueAdd, MarkQueued, SetBatchPaused
    <3>2. QED
      BY <3>1 DEF DeletesCounted, Intact
  <2>3. CASE DeletePause \/ DeleteRedisJob \/ DeletePurge
    <3>1. /\ UNCHANGED spent /\ batch'.exists = batch.exists
          /\ ctl \in {"deletePause", "deleteRedis", "deletePurge"}
      BY <1>0, <2>3 DEF DeletePause, DeleteRedisJob, DeletePurge, SetBatchPaused
    <3>2. QED
      BY <3>1 DEF DeletesCounted, Intact
  <2>4. CASE DeleteBatch
    <3>1. batch'.exists = FALSE /\ ctl' = "idle"
      BY <1>0, <2>4 DEF DeleteBatch
    <3>2. QED
      BY <3>1 DEF DeletesCounted, Intact
  <2>5. QED
    BY <1>3, <2>1, <2>2, <2>3, <2>4 DEF Control
<1>4. CASE PickUp \/ PromoteDelayed \/ Stalled \/ Processor \/ Settle \/ Boot
  <2>1. UNCHANGED <<ctl, spent>>
    BY <1>4 DEF PickUp, PromoteDelayed, Stalled, Settle, Boot, Processor,
       MarkActive, ListGroups, CheckPause, RecordWorkerStopped,
       MarkGroupActive, CompleteGroup, CountGroup, MarkCompleted, FailJob,
       CancelBatch, Return, Throw, StoreCreatedHeaderIds, SetPosted,
       ReleaseRead, ForceRemove, Restore
  <2>2. batch'.exists = batch.exists
    BY <1>0, <1>4 DEF PickUp, PromoteDelayed, Stalled, Settle, Boot, Processor,
       MarkActive, ListGroups, CheckPause, RecordWorkerStopped,
       MarkGroupActive, CompleteGroup, CountGroup, MarkCompleted, FailJob,
       CancelBatch, Return, Throw, StoreCreatedHeaderIds, SetPosted,
       ReleaseRead, ForceRemove, Restore, SetBatchStatus, AddDfoIds
  <2>3. QED
    BY <1>1, <2>1, <2>2
<1>5. CASE PostGroup \/ RollBack \/ StoreFault
  <2>1. UNCHANGED ctl /\ batch'.exists = batch.exists
    BY <1>0, <1>5 DEF PostGroup, ReuseHeader, CreateHeader, CreateHeaderRejected,
       CreateHeaderUnanswered, SetCreatedHeader, PostLines, PostLinesRepeated,
       PostLinesRejected, RollBack, StartRollback, RollbackLines,
       RollbackHeader, RetainHeader, RollbackDone, KeepRetainedIds,
       ResetGroups, StoreFault, AddDfoIds
  <2>2. UNCHANGED spent \/ Spend("faults", MaxFaults)
    BY <1>5 DEF PostGroup, ReuseHeader, CreateHeader, CreateHeaderRejected,
       CreateHeaderUnanswered, SetCreatedHeader, PostLines, PostLinesRepeated,
       PostLinesRejected, RollBack, StartRollback, RollbackLines,
       RollbackHeader, RetainHeader, RollbackDone, KeepRetainedIds,
       ResetGroups, StoreFault
  <2>3. /\ spent'.deletes = spent.deletes /\ spent'.crashes = spent.crashes
        /\ spent'.submits = spent.submits
    BY <1>0, <2>2 DEF Spend
  <2>4. QED
    BY <2>1, <2>3 DEF DeletesCounted, Intact
<1>6. CASE Crash
  <2>1. /\ ctl' = "idle" /\ UNCHANGED batch
        /\ spent'.deletes = spent.deletes /\ spent'.crashes = spent.crashes + 1
        /\ spent'.submits = spent.submits
    BY <1>0, <1>6 DEF Crash, Spend
  <2>2. QED
    BY <1>0, <2>1 DEF DeletesCounted, Intact
<1>7. QED
  BY <1>2, <1>3, <1>4, <1>5, <1>6 DEF Next

(* Requests, BullMQ and the boot code touch neither Finance nor the        *)
(* processor.                                                              *)
Outside ==
  \/ \E s \in Submitters : Submit(s)
  \/ Control \/ PromoteDelayed \/ Stalled \/ Boot

LEMMA OutsideKeeps ==
  ASSUME Outside
  PROVE  UNCHANGED <<fo, worker>>
<1>1. ASSUME NEW s \in Submitters, Submit(s)
      PROVE  UNCHANGED <<fo, worker>>
  BY <1>1 DEF Submit, SubmitValidate, SubmitPrepare, SubmitLookup,
     SubmitMarkPosted, SubmitRemoveFailed, SubmitStorePrepare,
     ReplaceDeleteGroups, ReplaceInsertGroups, ReplaceUpsertJob, SubmitAdd
<1>2. ASSUME Control
      PROVE  UNCHANGED <<fo, worker>>
  BY <1>2 DEF Control, PauseRead, PauseSet, ResumeRead, ResumeClear,
     ResumeFindJob, RequeueCheck, RequeueAdd, MarkQueued, DeleteRead,
     DeletePause, DeleteRedisJob, DeletePurge, DeleteBatch
<1>3. QED
  BY <1>1, <1>2 DEF Outside, PromoteDelayed, Stalled, Boot, ReleaseRead,
     ForceRemove, Restore

(* Everything else is the processor's, or kills it.                        *)
Inside == PickUp \/ Processor \/ PostGroup \/ RollBack \/ Settle \/ StoreFault \/ Crash

LEMMA Sides == Next => Outside \/ Inside
  BY DEF Next, Outside, Inside

Undoing == {"rollback", "keepIds", "reset"}

(* Only its own steps take the processor through the rollback.             *)
LEMMA EntersUndoing ==
  ASSUME TypeInv, Inside, ~RollBack
  PROVE  worker'.pc \notin Undoing
<1>0. worker \in Workers
  BY DEF TypeInv, TypeOK, WorkerOK
<1>1. CASE worker' = IdleWorker
  BY <1>1 DEF IdleWorker, Undoing
<1>2. CASE \E p \in WorkerPc \ Undoing : Goto(p)
  BY <1>0, <1>2 DEF Goto, Workers
<1>3. CASE PickUp
  <2>1. worker'.pc = "start"
    BY <1>3, IdleWorkerType DEF PickUp, Workers
  <2>2. QED
    BY <2>1 DEF Undoing
<1>4. CASE Processor
  <2>1. CASE ListGroups \/ CheckPause
    <3>1. worker'.pc \in {"fail", "check", "settle", "stop", "markGroup"}
      BY <1>0, <2>1 DEF ListGroups, CheckPause, Goto, Workers
    <3>2. QED
      BY <3>1 DEF Undoing
  <2>2. CASE Return \/ Throw
    BY <1>1, <2>2 DEF Return, Throw
  <2>3. ASSUME \/ MarkActive \/ RecordWorkerStopped \/ MarkGroupActive
               \/ CompleteGroup \/ CountGroup \/ MarkCompleted \/ FailJob
               \/ CancelBatch
        PROVE  \E p \in WorkerPc \ Undoing : Goto(p)
    BY <2>3 DEF MarkActive, RecordWorkerStopped, MarkGroupActive, CompleteGroup,
       CountGroup, MarkCompleted, FailJob, CancelBatch, WorkerPc, Undoing
  <2>4. QED
    BY <1>2, <1>4, <2>1, <2>2, <2>3 DEF Processor
<1>5. CASE PostGroup
  <2>1. CASE ReuseHeader \/ CreateHeader \/ SetCreatedHeader
    <3>1. worker'.pc \in {"lines", "record"}
      BY <1>0, <2>1 DEF ReuseHeader, CreateHeader, SetCreatedHeader, Workers
    <3>2. QED
      BY <3>1 DEF Undoing
  <2>2. CASE UNCHANGED worker /\ worker.pc = "open"
    BY <2>2 DEF Undoing
  <2>3. ASSUME \/ CreateHeaderRejected \/ CreateHeaderUnanswered \/ PostLines
               \/ PostLinesRepeated \/ PostLinesRejected
        PROVE  \/ \E p \in WorkerPc \ Undoing : Goto(p)
               \/ UNCHANGED worker /\ worker.pc = "open"
    BY <2>3 DEF CreateHeaderRejected, CreateHeaderUnanswered, PostLines,
       PostLinesRepeated, PostLinesRejected, WorkerPc, Undoing
  <2>4. QED
    BY <1>2, <1>5, <2>1, <2>2, <2>3 DEF PostGroup
<1>6. CASE Settle \/ StoreFault
  BY <1>2, <1>6 DEF Settle, StoreCreatedHeaderIds, SetPosted, StoreFault,
     WorkerPc, Undoing
<1>7. CASE Crash
  BY <1>1, <1>7 DEF Crash
<1>8. QED
  BY <1>3, <1>4, <1>5, <1>6, <1>7 DEF Inside

LEMMA RollbackStep ==
  ASSUME JournalInv, RollbackInv, Next
  PROVE  RollbackInv'
<1>0. /\ TypeInv /\ worker \in Workers /\ fo \in Seq(Journals)
      /\ worker.created \in Seq(HeaderIds) /\ worker.undo \in Nat
      /\ Len(worker.created) \in Nat
      /\ \A i \in 1..Len(worker.created) : worker.created[i] \in HeaderIds
      /\ \A h \in HeaderIds : h \in DOMAIN fo /\ fo[h] \in Journals
  <2>1. TypeInv /\ worker \in Workers /\ fo \in Seq(Journals)
    BY DEF JournalInv, TypeInv, TypeOK, WorkerOK, FoOK
  <2>2. worker.created \in Seq(HeaderIds) /\ worker.undo \in Nat
    BY <2>1 DEF Workers
  <2>3. QED
    BY <2>1, <2>2, JournalStep DEF HeaderIds
<1>1. CASE worker'.pc \notin Undoing
  BY <1>1 DEF RollbackInv, Undoing
<1>2. CASE UNCHANGED <<fo, worker>>
  BY <1>2 DEF RollbackInv, Undone
<1>3. CASE StartRollback
  <2>1. worker'.pc \in {"fail", "rollback"}
    BY <1>0, <1>3 DEF StartRollback, Workers
  <2>2. worker'.undo = Len(worker.created) /\ worker'.created = worker.created
    BY <1>0, <1>3 DEF StartRollback, Workers
  <2>3. QED
    BY <1>0, <2>1, <2>2 DEF RollbackInv
<1>4. CASE RollbackLines
  <2> DEFINE h == worker.created[worker.undo]
  <2>1. h \in HeaderIds /\ fo[h] \in Journals
    BY <1>0, <1>4 DEF RollbackLines, TypeInv, WorkerPosition
  <2>2. \A k \in HeaderIds : fo'[k].live = fo[k].live
    <3>1. PICK l \in Lines : fo' = [fo EXCEPT ![h] = [fo[h] EXCEPT !.lines = l]]
      BY <1>4 DEF RollbackLines, Lines
    <3>2. QED
      BY <1>0, <2>1, <3>1 DEF Journals
  <2>3. UNCHANGED worker
    BY <1>4 DEF RollbackLines
  <2>4. QED
    BY <1>0, <2>2, <2>3 DEF RollbackInv, Undone
<1>5. CASE RollbackHeader \/ RetainHeader
  <2> DEFINE h == worker.created[worker.undo]
  <2>1. /\ worker.pc = "rollback" /\ worker.undo \in 1..Len(worker.created)
        /\ h \in HeaderIds
    BY <1>0, <1>5 DEF RollbackHeader, RetainHeader, TypeInv, WorkerPosition
  <2>2. /\ worker'.pc = "rollback" /\ worker'.undo = worker.undo - 1
        /\ worker'.created = worker.created /\ worker.failed \subseteq worker'.failed
    <3>1. \/ worker' = [worker EXCEPT !.undo = worker.undo - 1]
          \/ worker' = [worker EXCEPT !.undo = worker.undo - 1,
                                     !.failed = worker.failed \cup {h}]
      BY <1>5 DEF RollbackHeader, RetainHeader
    <3> HIDE DEF h
    <3>2. QED
      BY <1>0, <2>1, <3>1 DEF Workers
  <2>3. \A k \in HeaderIds : fo'[k].live => fo[k].live
    BY <1>0, <1>5, <2>1 DEF RollbackHeader, RetainHeader, Journals
  <2>4. ~fo'[h].live \/ h \in worker'.failed
    <3>1. CASE RollbackHeader
      BY <1>0, <2>1, <3>1 DEF RollbackHeader, Journals
    <3>2. CASE RetainHeader
      BY <1>0, <2>1, <3>2 DEF RetainHeader, Workers
    <3>3. QED
      BY <1>5, <3>1, <3>2
  <2> HIDE DEF h
  <2>5. ASSUME NEW i \in 1..Len(worker.created), i > worker.undo - 1
        PROVE  ~fo'[worker.created[i]].live \/ worker.created[i] \in worker'.failed
    <3>1. CASE i = worker.undo
      BY <2>4, <3>1 DEF h
    <3>2. CASE i > worker.undo
      BY <1>0, <2>1, <2>2, <2>3, <3>2 DEF RollbackInv, Undone
    <3>3. QED
      BY <1>0, <2>5, <3>1, <3>2
  <2>6. QED
    BY <2>2, <2>5 DEF RollbackInv, Undone
<1>6. CASE RollbackDone \/ KeepRetainedIds
  <2>1. /\ worker'.pc \in {"keepIds", "reset"} /\ worker'.created = worker.created
        /\ worker'.failed = worker.failed /\ UNCHANGED fo
        /\ worker.pc = "rollback" => worker.undo = 0
        /\ worker.pc \in {"rollback", "keepIds"}
    BY <1>0, <1>6 DEF RollbackDone, KeepRetainedIds, Goto, Workers
  <2>2. QED
    BY <1>0, <2>1 DEF RollbackInv, Undone
<1>7. CASE ResetGroups
  <2>1. worker'.pc = "fail"
    BY <1>0, <1>7 DEF ResetGroups, Goto, Workers
  <2>2. QED
    BY <1>1, <2>1 DEF Undoing
<1>8. QED
  BY <1>0, <1>1, <1>2, <1>3, <1>4, <1>5, <1>6, <1>7, Sides, OutsideKeeps,
     EntersUndoing DEF RollBack
-----------------------------------------------------------------------------
(* The processor leaves the job and the groups where they are.             *)
LEMMA GroupsStay ==
  ASSUME TypeInv, Processor \/ PostGroup \/ RollBack \/ Settle \/ StoreFault
  PROVE  /\ job.status # "none" => job'.status # "none"
         /\ Present => Present'
         /\ UNCHANGED <<subs, ctl>> /\ worker.pc # "idle"
         /\ spent'.submits = spent.submits
<1>0. /\ groups \in [Groups -> GroupDocs] /\ worker.pc \in WorkerPc
      /\ job \in [status : JobStatus, completed : Nat]
      /\ spent \in [submits : Nat, pauses : Nat, deletes : Nat, faults : Nat,
                    crashes : Nat]
  BY DEF TypeInv, TypeOK, GroupsOK, JobOK, RequestsOK, WorkerOK, Workers
<1>1. UNCHANGED <<subs, ctl>> /\ worker.pc # "idle"
  BY DEF Processor, MarkActive, ListGroups, CheckPause, RecordWorkerStopped,
     MarkGroupActive, CompleteGroup, CountGroup, MarkCompleted, FailJob,
     CancelBatch, Return, Throw, PostGroup, ReuseHeader, CreateHeader,
     CreateHeaderRejected, CreateHeaderUnanswered, SetCreatedHeader, PostLines,
     PostLinesRepeated, PostLinesRejected, RollBack, StartRollback,
     RollbackLines, RollbackHeader, RetainHeader, RollbackDone,
     KeepRetainedIds, ResetGroups, Settle, StoreCreatedHeaderIds, SetPosted,
     StoreFault
<1>2. UNCHANGED spent \/ Spend("faults", MaxFaults)
  BY DEF Processor, MarkActive, ListGroups, CheckPause, RecordWorkerStopped,
     MarkGroupActive, CompleteGroup, CountGroup, MarkCompleted, FailJob,
     CancelBatch, Return, Throw, PostGroup, ReuseHeader, CreateHeader,
     CreateHeaderRejected, CreateHeaderUnanswered, SetCreatedHeader, PostLines,
     PostLinesRepeated, PostLinesRejected, RollBack, StartRollback,
     RollbackLines, RollbackHeader, RetainHeader, RollbackDone,
     KeepRetainedIds, ResetGroups, Settle, StoreCreatedHeaderIds, SetPosted,
     StoreFault
<1>3. spent'.submits = spent.submits
  BY <1>0, <1>2 DEF Spend
<1>4. ASSUME NEW st \in JobStatus \ {"none"}, SetJobStatus(st)
      PROVE  job.status # "none" => job'.status # "none"
  BY <1>0, <1>4 DEF SetJobStatus
<1>5. ASSUME NEW g \in Groups, NEW r, SetGroup(g, r), r.status = "absent" => groups[g].status = "absent"
      PROVE  Present => Present'
  BY <1>0, <1>5 DEF SetGroup, Present
<1>6. UNCHANGED groups => (Present => Present')
  BY DEF Present
<1>7. UNCHANGED job => (job.status # "none" => job'.status # "none")
  OBVIOUS
<1>8. job.status # "none" => job'.status # "none"
  <2>1. CASE \/ MarkActive \/ RecordWorkerStopped \/ MarkCompleted \/ FailJob
    BY <1>4, <2>1 DEF MarkActive, RecordWorkerStopped, MarkCompleted, FailJob, JobStatus
  <2>2. CASE CountGroup \/ ResetGroups
    BY <1>0, <2>2 DEF CountGroup, ResetGroups, resetAfterRollback
  <2>3. QED
    BY <1>7, <2>1, <2>2 DEF Processor, ListGroups, CheckPause,
     MarkGroupActive, CompleteGroup,
     CancelBatch, Return, Throw, PostGroup, ReuseHeader, CreateHeader,
     CreateHeaderRejected, CreateHeaderUnanswered, SetCreatedHeader, PostLines,
     PostLinesRepeated, PostLinesRejected, RollBack, StartRollback,
     RollbackLines, RollbackHeader, RetainHeader, RollbackDone,
     KeepRetainedIds, Settle, StoreCreatedHeaderIds, SetPosted,
     StoreFault
<1>9. Present => Present'
  <2>1. CASE MarkGroupActive \/ CompleteGroup \/ SetCreatedHeader
    <3>1. worker.at \in Groups
      BY <2>1 DEF MarkGroupActive, CompleteGroup, SetCreatedHeader, TypeInv,
         WorkerPosition
    <3>2. \E r : SetGroup(worker.at, r) /\ (r.status = "absent" => groups[worker.at].status = "absent")
      <4>1. groups[worker.at] \in GroupDocs
        BY <1>0, <3>1
      <4>2. CASE MarkGroupActive
        BY <4>1, <4>2 DEF MarkGroupActive, GroupDocs
      <4>3. CASE CompleteGroup
        BY <4>1, <4>3 DEF CompleteGroup, GroupDocs
      <4>4. CASE SetCreatedHeader
        BY <4>1, <4>4 DEF SetCreatedHeader, GroupDocs
      <4>5. QED
        BY <2>1, <4>2, <4>3, <4>4
    <3>3. QED
      BY <1>5, <3>1, <3>2
  <2>2. CASE ResetGroups
    <3>1. ASSUME NEW rec \in GroupDocs, NEW c, NEW r, rec.status # "absent"
          PROVE  AfterRollback(rec, c, r).status # "absent"
      BY <3>1 DEF AfterRollback, GroupDocs, Pending
    <3>2. QED
      BY <1>0, <2>2, <3>1 DEF ResetGroups, resetAfterRollback, Present
  <2>3. QED
    BY <1>6, <2>1, <2>2 DEF Processor, MarkActive, ListGroups, CheckPause, RecordWorkerStopped,
     CountGroup, MarkCompleted, FailJob,
     CancelBatch, Return, Throw, PostGroup, ReuseHeader, CreateHeader,
     CreateHeaderRejected, CreateHeaderUnanswered, PostLines,
     PostLinesRepeated, PostLinesRejected, RollBack, StartRollback,
     RollbackLines, RollbackHeader, RetainHeader, RollbackDone,
     KeepRetainedIds, Settle, StoreCreatedHeaderIds, SetPosted,
     StoreFault
<1>10. QED
  BY <1>1, <1>3, <1>8, <1>9

(* What the other places of the program may change without RequestInv      *)
(* noticing: the job is stored and stays so.                               *)
LEMMA JobStored ==
  ASSUME RequestInv, job.status # "none", job'.status # "none", Present => Present',
         UNCHANGED subs, ctl' \in CtlPc, spent'.submits = spent.submits
  PROVE  RequestInv'
  BY DEF RequestInv, BeforeJob

LEMMA SubmitRequest ==
  ASSUME TypeInv, RequestInv, Intact', NEW r \in Submitters, Submit(r)
  PROVE  RequestInv'
<1>0. /\ groups \in [Groups -> GroupDocs] /\ subs \in [Submitters -> SubPc]
      /\ spent \in [submits : Nat, pauses : Nat, deletes : Nat, faults : Nat,
                    crashes : Nat]
      /\ job \in [status : JobStatus, completed : Nat]
      /\ redis \in [state : RedisState, attempts : Nat, stalled : Nat]
  BY DEF TypeInv, TypeOK, GroupsOK, RequestsOK, JobOK, RedisOK
<1>1. UNCHANGED <<fo, worker, ctl>>
  BY DEF Submit, SubmitValidate, SubmitPrepare, SubmitLookup,
     SubmitMarkPosted, SubmitRemoveFailed, SubmitStorePrepare,
     ReplaceDeleteGroups, ReplaceInsertGroups, ReplaceUpsertJob, SubmitAdd
(* The request goes on to p.                                               *)
<1>2. ASSUME NEW p \in SubPc, SubGoto(r, p)
      PROVE  /\ subs'[r] = p
             /\ \A s \in Submitters : s # r => subs'[s] = subs[s]
  BY <1>0, <1>2 DEF SubGoto
<1>3. ASSUME subs[r] # "idle"
      PROVE  \A s \in Submitters : s # r => subs[s] = "idle"
  BY <1>3 DEF RequestInv
<1>4. CASE SubmitValidate(r)
  <2>1. spent'.submits = spent.submits + 1 /\ UNCHANGED <<job, groups, redis>>
    BY <1>0, <1>4 DEF SubmitValidate, Spend
  <2>2. spent.submits = 0
    BY <1>0, <2>1 DEF Intact
  <2>3. subs'[r] = "prepare" /\ \A s \in Submitters : s # r => subs'[s] = "idle"
    BY <1>2, <1>4, <2>2 DEF SubmitValidate, SubPc, RequestInv
  <2>4. QED
    BY <1>1, <2>1, <2>2, <2>3 DEF RequestInv, BeforeJob, Present
<1>5. ASSUME subs[r] \in BeforeJob, NEW p \in BeforeJob \ {"upsertJob"}, SubGoto(r, p),
             UNCHANGED <<job, redis, spent>>
      PROVE  RequestInv'
  <2>1. subs[r] # "idle" /\ p \in SubPc
    BY <1>5 DEF BeforeJob, SubPc
  <2>2. /\ subs'[r] = p /\ \A s \in Submitters : s # r => subs'[s] = "idle"
        /\ job.status = "none"
    BY <1>2, <1>3, <1>5, <2>1 DEF RequestInv
  <2>3. QED
    BY <1>1, <1>5, <2>1, <2>2 DEF RequestInv, BeforeJob
<1>6. CASE SubmitPrepare(r) \/ ReplaceDeleteGroups(r)
  BY <1>5, <1>6 DEF SubmitPrepare, ReplaceDeleteGroups, BeforeJob
<1>7. CASE SubmitLookup(r)
  <2>1. redis.state = "absent"
    BY <1>7 DEF SubmitLookup, RequestInv, BeforeJob
  <2>2. QED
    BY <1>5, <1>7, <2>1 DEF SubmitLookup, BeforeJob
<1>8. CASE SubmitMarkPosted(r) \/ SubmitRemoveFailed(r)
  BY <1>8 DEF SubmitMarkPosted, SubmitRemoveFailed, RequestInv, BeforeJob
<1>9. CASE SubmitStorePrepare(r)
  <2>1. job.status \notin Recoverable
    BY <1>9 DEF SubmitStorePrepare, RequestInv, BeforeJob, Recoverable
  <2>2. QED
    BY <1>5, <1>9, <2>1 DEF SubmitStorePrepare, BeforeJob
<1>10. CASE ReplaceInsertGroups(r)
  <2>1. PICK p \in {"upsertJob", "idle"} :
          SubGoto(r, p) /\ (p = "upsertJob" => groups' = [g \in Groups |-> Pending])
    BY <1>10 DEF ReplaceInsertGroups
  <2>2. /\ subs'[r] = p /\ \A s \in Submitters : s # r => subs'[s] = "idle"
        /\ job.status = "none"
    BY <1>2, <1>3, <1>10, <2>1 DEF ReplaceInsertGroups, RequestInv, BeforeJob, SubPc
  <2>3. p = "upsertJob" => Present'
    BY <2>1 DEF Present, Pending
  <2>4. UNCHANGED <<job, redis, spent>>
    BY <1>10 DEF ReplaceInsertGroups
  <2>5. spent.submits # 0
    BY <1>10 DEF ReplaceInsertGroups, RequestInv
  <2>6. QED
    BY <1>1, <2>1, <2>2, <2>3, <2>4, <2>5 DEF RequestInv, BeforeJob
<1>11. CASE ReplaceUpsertJob(r)
  <2>1. /\ subs'[r] = "add" /\ \A s \in Submitters : s # r => subs'[s] = "idle"
        /\ job'.status # "none" /\ Present /\ UNCHANGED <<groups, redis, spent>>
    BY <1>2, <1>3, <1>11 DEF ReplaceUpsertJob, RequestInv, BeforeJob, SubPc
  <2>2. spent.submits # 0
    BY <1>11 DEF ReplaceUpsertJob, RequestInv
  <2>3. QED
    BY <1>1, <2>1, <2>2 DEF RequestInv, BeforeJob, Present
<1>12. CASE SubmitAdd(r)
  <2>1. /\ subs'[r] = "idle" /\ \A s \in Submitters : s # r => subs'[s] = "idle"
        /\ job.status # "none" /\ UNCHANGED <<job, groups, spent>>
    BY <1>2, <1>3, <1>12 DEF SubmitAdd, RequestInv, BeforeJob, SubPc
  <2>2. QED
    BY <1>1, <1>12, <2>1 DEF SubmitAdd, RequestInv, BeforeJob, Present
<1>13. QED
  BY <1>4, <1>6, <1>7, <1>8, <1>9, <1>10, <1>11, <1>12 DEF Submit

LEMMA RequestStep ==
  ASSUME TypeInv, RequestInv, Intact', Next
  PROVE  RequestInv'
<1>0. /\ job \in [status : JobStatus, completed : Nat]
      /\ redis \in [state : RedisState, attempts : Nat, stalled : Nat]
      /\ spent \in [submits : Nat, pauses : Nat, deletes : Nat, faults : Nat,
                    crashes : Nat]
  BY DEF TypeInv, TypeOK, RequestsOK, JobOK, RedisOK
<1>1. CASE \E s \in Submitters : Submit(s)
  BY <1>1, SubmitRequest
<1>2. CASE Control
  <2>1. UNCHANGED <<subs, fo, worker>> /\ spent'.submits = spent.submits
    <3>1. UNCHANGED spent \/ Spend("pauses", MaxPauses) \/ Spend("deletes", MaxDeletes)
      BY <1>2 DEF Control, PauseRead, PauseSet, ResumeRead, ResumeClear,
     ResumeFindJob, RequeueCheck, RequeueAdd, MarkQueued, DeleteRead,
     DeletePause, DeleteRedisJob, DeletePurge, DeleteBatch
    <3>2. spent'.submits = spent.submits
      BY <1>0, <3>1 DEF Spend
    <3>3. QED
      BY <1>2, <3>2 DEF Control, PauseRead, PauseSet, ResumeRead, ResumeClear,
     ResumeFindJob, RequeueCheck, RequeueAdd, MarkQueued, DeleteRead,
     DeletePause, DeleteRedisJob, DeletePurge, DeleteBatch
  <2>2. CASE \/ PauseRead \/ PauseSet \/ ResumeRead \/ ResumeClear \/ DeleteRead
             \/ DeletePause \/ DeleteBatch
    <3>1. UNCHANGED <<job, groups, redis>> /\ ctl' \notin {"requeueCheck", "requeueAdd", "markQueued"}
      BY <2>2 DEF PauseRead, PauseSet, ResumeRead, ResumeClear, DeleteRead,
         DeletePause, DeleteBatch
    <3>2. QED
      BY <2>1, <3>1 DEF RequestInv, Present
  <2>3. CASE ResumeFindJob
    <3>1. UNCHANGED <<job, groups, redis>> /\ (ctl' = "idle" \/ job.status = "paused")
      BY <2>3 DEF ResumeFindJob
    <3>2. QED
      BY <2>1, <3>1 DEF RequestInv, Present
  <2>4. CASE RequeueCheck \/ RequeueAdd \/ MarkQueued
    <3>1. job.status # "none" /\ job'.status # "none"
      BY <1>0, <2>4 DEF RequeueCheck, RequeueAdd, MarkQueued, SetJobStatus, RequestInv
    <3>2. UNCHANGED groups /\ ctl' \in CtlPc
      BY <2>4 DEF RequeueCheck, RequeueAdd, MarkQueued, CtlPc
    <3>3. QED
      BY <2>1, <3>1, <3>2, JobStored DEF Present
  <2>5. CASE DeleteRedisJob
    <3>1. UNCHANGED <<job, groups>> /\ ctl' = "deletePurge"
          /\ (redis.state = "absent" => redis'.state = "absent")
      BY <2>5 DEF DeleteRedisJob
    <3>2. QED
      BY <2>1, <3>1 DEF RequestInv, Present
  <2>6. CASE DeletePurge
    BY <2>6 DEF DeletePurge, Intact
  <2>7. QED
    BY <1>2, <2>2, <2>3, <2>4, <2>5, <2>6 DEF Control
<1>3. CASE PromoteDelayed \/ Stalled \/ PickUp
  <2>1. /\ job.status # "none" /\ UNCHANGED <<job, groups, subs, ctl, spent>>
    BY <1>3 DEF PromoteDelayed, Stalled, PickUp, RequestInv
  <2>2. QED
    BY <2>1, JobStored DEF Present, TypeInv, TypeOK, RequestsOK
<1>4. CASE Boot
  <2>1. UNCHANGED <<job, groups, subs, ctl, spent, fo, worker>>
    BY <1>4 DEF Boot, ReleaseRead, ForceRemove, Restore
  <2>2. job.status = "none" => redis'.state = "absent"
    BY <1>4 DEF Boot, ReleaseRead, ForceRemove, Restore, RequestInv, NoRedisJob, Recoverable
  <2>3. QED
    BY <2>1, <2>2 DEF RequestInv, Present
<1>5. CASE Crash
  <2>1. /\ subs' = [s \in Submitters |-> "idle"] /\ ctl' = "idle" /\ worker'.pc = "idle"
        /\ UNCHANGED <<job, groups, redis, fo>> /\ spent'.submits = spent.submits
    BY <1>0, <1>5 DEF Crash, Spend, IdleWorker
  <2>2. QED
    BY <2>1 DEF RequestInv, Present, BeforeJob
<1>6. CASE Processor \/ PostGroup \/ RollBack \/ Settle \/ StoreFault
  <2>1. job.status # "none"
    BY <1>6, GroupsStay DEF RequestInv
  <2>2. ctl' \in CtlPc
    BY <1>6, GroupsStay DEF TypeInv, TypeOK, RequestsOK
  <2>3. QED
    BY <1>6, <2>1, <2>2, GroupsStay, JobStored
<1>7. QED
  BY <1>1, <1>2, <1>3, <1>4, <1>5, <1>6 DEF Next
-----------------------------------------------------------------------------
(* Finance creates an empty journal, or changes one the processor works    *)
(* with; what is gone stays gone.                                          *)
Creates == worker.pc = "open" /\ fo' = Append(fo, NewJournal(worker.at))

Edits ==
  /\ Len(fo') = Len(fo)
  /\ \A h \in HeaderIds :
       /\ fo'[h].live => fo[h].live
       /\ \/ fo'[h].lines = fo[h].lines
          \/ worker.pc = "lines" /\ h = worker.key
          \/ worker.pc = "rollback" /\ h \in Created

LEMMA FinanceStep ==
  ASSUME TypeInv, Next
  PROVE  /\ Creates \/ Edits
         /\ worker.pc = "record" => UNCHANGED fo
<1>0. /\ fo \in Seq(Journals) /\ HeaderIds = 1..Len(fo) /\ Len(fo) \in Nat
      /\ \A h \in HeaderIds : fo[h] \in Journals
  BY JournalStep DEF TypeInv, TypeOK, FoOK, HeaderIds
<1>1. UNCHANGED fo => Edits
  BY DEF Edits
<1>2. CASE Outside
  BY <1>1, <1>2, OutsideKeeps
<1>3. CASE PickUp \/ Processor \/ Settle \/ StoreFault \/ Crash
  BY <1>1, <1>3 DEF PickUp, Processor, MarkActive, ListGroups, CheckPause,
     RecordWorkerStopped, MarkGroupActive, CompleteGroup, CountGroup,
     MarkCompleted, FailJob, CancelBatch, Return, Throw, StoreFault, Crash,
     Settle, StoreCreatedHeaderIds, SetPosted
<1>4. CASE PostGroup
  <2>1. CASE UNCHANGED fo
    BY <1>1, <2>1
  <2>2. CASE Creates
    BY <2>2 DEF Creates
  <2>3. ASSUME worker.pc = "lines",
               \E l : fo' = [fo EXCEPT ![worker.key].lines = l]
        PROVE  Edits
    <3>1. worker.key \in HeaderIds /\ fo[worker.key] \in Journals
      BY <1>0, <2>3 DEF TypeInv, WorkerPosition
    <3>2. PICK l : fo' = [fo EXCEPT ![worker.key] = [fo[worker.key] EXCEPT !.lines = l]]
      BY <2>3
    <3>3. QED
      BY <1>0, <2>3, <3>1, <3>2 DEF Edits, Journals
  <2>4. QED
    BY <1>4, <2>1, <2>2, <2>3 DEF PostGroup, ReuseHeader, CreateHeader, Creates,
       CreateHeaderRejected, CreateHeaderUnanswered, SetCreatedHeader,
       PostLines, PostLinesRepeated, PostLinesRejected
<1>5. CASE RollBack
  <2>1. CASE UNCHANGED fo
    BY <1>1, <2>1
  <2>2. CASE RollbackLines \/ RollbackHeader \/ RetainHeader
    <3> DEFINE h == worker.created[worker.undo]
    <3>1. /\ worker.pc = "rollback" /\ h \in Created
          /\ h \in HeaderIds /\ fo[h] \in Journals
      <4>1. worker.pc = "rollback" /\ worker.undo > 0
        BY <2>2 DEF RollbackLines, RollbackHeader, RetainHeader
      <4>2. worker.undo \in 1..Len(worker.created)
        BY <4>1, Numbers DEF TypeInv, TypeOK, WorkerOK, Workers, WorkerPosition
      <4>3. QED
        BY <1>0, <4>1, <4>2, Numbers DEF Created
    <3>2. \/ \E l : fo' = [fo EXCEPT ![h] = [fo[h] EXCEPT !.lines = l]]
          \/ fo' = [fo EXCEPT ![h] = [fo[h] EXCEPT !.live = FALSE]]
          \/ fo' = [fo EXCEPT ![h] = [fo[h] EXCEPT !.kept = TRUE]]
      BY <2>2 DEF RollbackLines, RollbackHeader, RetainHeader
    <3> HIDE DEF h
    <3>3. PICK r : /\ fo' = [fo EXCEPT ![h] = r]
                   /\ r.live => fo[h].live
      BY <3>1, <3>2 DEF Journals
    <3>4. QED
      BY <1>0, <3>1, <3>3 DEF Edits
  <2>3. worker.pc # "record"
    BY <1>5 DEF RollBack, StartRollback, RollbackLines, RollbackHeader, RetainHeader,
       RollbackDone, KeepRetainedIds, ResetGroups
  <2>4. QED
    BY <1>5, <2>1, <2>2, <2>3 DEF RollBack, StartRollback, RollbackDone, KeepRetainedIds,
       ResetGroups
<1>6. QED
  BY <1>2, <1>3, <1>4, <1>5, Sides DEF Inside

(* What becomes of the set of live journals.                               *)
LEMMA LiveStep ==
  ASSUME TypeInv, Next
  PROVE  /\ HeaderIds \subseteq HeaderIds'
         /\ \A h \in Live' : h \in Live \/ (Creates /\ h = Len(fo) + 1)
         /\ Creates => /\ HeaderIds' = HeaderIds \cup {Len(fo) + 1}
                       /\ Len(fo) + 1 \notin HeaderIds
                       /\ fo'[Len(fo) + 1].lines = "none"
                       /\ \A h \in HeaderIds : fo'[h] = fo[h]
<1>0. /\ fo \in Seq(Journals) /\ HeaderIds = 1..Len(fo) /\ Len(fo) \in Nat
      /\ HeaderIds' = 1..Len(fo')
  BY DEF TypeInv, TypeOK, FoOK, HeaderIds
<1>1. CASE Creates
  <2>1. /\ Len(fo') = Len(fo) + 1 /\ fo'[Len(fo) + 1] = NewJournal(worker.at)
        /\ \A h \in 1..Len(fo) : fo'[h] = fo[h]
    BY <1>0, <1>1 DEF Creates
  <2>2. QED
    BY <1>0, <1>1, <2>1 DEF Live, NewJournal
<1>2. CASE Edits /\ ~Creates
  BY <1>0, <1>2 DEF Edits, Live
<1>3. QED
  BY <1>1, <1>2, FinanceStep

(* Adding a header to the list of this run.                                *)
LEMMA AppendsCreated ==
  ASSUME worker \in Workers, NEW h, worker'.created = Append(worker.created, h)
  PROVE  Created' = Created \cup {h}
<1>1. worker.created \in Seq(HeaderIds)
  BY DEF Workers
<1>2. /\ Len(worker'.created) = Len(worker.created) + 1
      /\ Len(worker.created) \in Nat
      /\ worker'.created[Len(worker.created) + 1] = h
      /\ \A i \in 1..Len(worker.created) : worker'.created[i] = worker.created[i]
  BY <1>1
<1>3. 1..Len(worker'.created) = 1..Len(worker.created) \cup {Len(worker.created) + 1}
  BY <1>2
<1>4. QED
  BY <1>2, <1>3 DEF Created

(* The list of this run only grows by a header that has been recorded.     *)
LEMMA CreatedStep ==
  ASSUME TypeInv, Next
  PROVE  \/ Created' \subseteq Created
         \/ ReuseHeader /\ Created' = Created \cup {worker.snap[worker.at].header}
         \/ SetCreatedHeader /\ Created' = Created \cup {worker.key}
<1>0. worker \in Workers /\ worker.created \in Seq(HeaderIds)
  BY DEF TypeInv, TypeOK, WorkerOK, Workers
<1>1. ASSUME worker'.created = worker.created \/ worker'.created = <<>>
      PROVE  Created' \subseteq Created
  BY <1>1 DEF Created
<1>2. CASE UNCHANGED worker \/ worker' = IdleWorker \/ \E p : Goto(p)
  BY <1>0, <1>1, <1>2 DEF IdleWorker, Goto, Workers
<1>4. CASE PickUp
  BY <1>1, <1>4, IdleWorkerType DEF PickUp, IdleWorker, Workers
<1>5. CASE Processor
  <2>1. CASE ListGroups \/ CheckPause
    <3>1. worker'.created = worker.created
      BY <1>0, <2>1 DEF ListGroups, CheckPause, Goto, Workers
    <3>2. QED
      BY <1>1, <3>1
  <2>2. QED
    BY <1>2, <1>5, <2>1 DEF Processor, MarkActive, RecordWorkerStopped,
       MarkGroupActive, CompleteGroup, CountGroup, MarkCompleted, FailJob,
       CancelBatch, Return, Throw
<1>6. CASE ReuseHeader
  BY <1>0, <1>6, AppendsCreated DEF ReuseHeader, Workers
<1>7. CASE SetCreatedHeader
  BY <1>0, <1>7, AppendsCreated DEF SetCreatedHeader, Workers
<1>8. CASE \/ CreateHeader \/ CreateHeaderRejected \/ CreateHeaderUnanswered
           \/ PostLines \/ PostLinesRepeated \/ PostLinesRejected
  <2>1. worker'.created = worker.created
    BY <1>0, <1>8 DEF CreateHeader, CreateHeaderRejected, CreateHeaderUnanswered,
       PostLines, PostLinesRepeated, PostLinesRejected, Goto, Workers
  <2>2. QED
    BY <1>1, <2>1
<1>9. CASE RollBack \/ Settle \/ StoreFault \/ Crash
  <2>1. CASE StartRollback \/ RollbackLines \/ RollbackHeader \/ RetainHeader
    <3>1. worker'.created = worker.created
      BY <1>0, <2>1 DEF StartRollback, RollbackLines, RollbackHeader, RetainHeader, Workers
    <3>2. QED
      BY <1>1, <3>1
  <2>2. QED
    BY <1>2, <1>9, <2>1 DEF RollBack, RollbackDone, KeepRetainedIds, ResetGroups,
     Settle, StoreCreatedHeaderIds, SetPosted, StoreFault, Crash
<1>10. QED
  BY <1>2, <1>4, <1>5, <1>6, <1>7, <1>8, <1>9, Sides, OutsideKeeps DEF Inside, PostGroup
(* Before the job is stored there is nothing in Finance; from then on only *)
(* the processor changes the groups.                                       *)
LEMMA OutsideGroups ==
  ASSUME RequestInv, Intact', Outside
  PROVE  UNCHANGED groups \/ (fo = <<>> /\ worker.pc = "idle")
<1>1. ASSUME NEW s \in Submitters, Submit(s), job.status # "none"
      PROVE  UNCHANGED groups
  BY <1>1 DEF Submit, SubmitValidate, SubmitPrepare, SubmitLookup,
     SubmitMarkPosted, SubmitRemoveFailed, SubmitStorePrepare,
     ReplaceDeleteGroups, ReplaceInsertGroups, ReplaceUpsertJob, SubmitAdd,
     RequestInv, BeforeJob
<1>2. ASSUME Control
      PROVE  UNCHANGED groups
  BY <1>2 DEF Control, PauseRead, PauseSet, ResumeRead, ResumeClear,
     ResumeFindJob, RequeueCheck, RequeueAdd, MarkQueued, DeleteRead,
     DeletePause, DeleteRedisJob, DeletePurge, DeleteBatch, Intact
<1>3. ASSUME PromoteDelayed \/ Stalled \/ Boot
      PROVE  UNCHANGED groups
  BY <1>3 DEF PromoteDelayed, Stalled, Boot, ReleaseRead, ForceRemove, Restore
<1>4. QED
  BY <1>1, <1>2, <1>3 DEF Outside, RequestInv

(* A header that is recorded and live stays recorded.                      *)
LEMMA RecordedStays ==
  ASSUME JournalInv, RollbackInv, RequestInv, HeaderInv, Intact', Next
  PROVE  \A h \in Recorded \cap Live : h \in Recorded'
<1>0. TypeInv /\ worker \in Workers /\ groups \in [Groups -> GroupDocs]
  BY DEF JournalInv, TypeInv, TypeOK, WorkerOK, GroupsOK
<1>1. CASE UNCHANGED groups
  BY <1>1 DEF Recorded
<1>2. CASE Outside
  <2>1. CASE fo = <<>>
    BY <2>1 DEF Live, HeaderIds
  <2>2. QED
    BY <1>1, <1>2, <2>1, OutsideGroups
<1>3. ASSUME \A g \in Groups : groups'[g].header \in {groups[g].header} \/ groups[g].header = NoHeader
      PROVE  \A h \in Recorded \cap Live : h \in Recorded'
  BY <1>3 DEF Recorded
<1>4. CASE MarkGroupActive \/ CompleteGroup
  <2>1. \A g \in Groups : groups'[g].header = groups[g].header
    BY <1>0, <1>4 DEF MarkGroupActive, CompleteGroup, SetGroup, GroupDocs
  <2>2. QED
    BY <1>3, <2>1
<1>5. CASE SetCreatedHeader
  <2>1. groups[worker.at].header = NoHeader
    BY <1>5 DEF SetCreatedHeader, HeaderInv
  <2>2. \A g \in Groups : g # worker.at => groups'[g] = groups[g]
    BY <1>0, <1>5 DEF SetCreatedHeader, SetGroup
  <2>3. QED
    BY <1>3, <2>1, <2>2
<1>6. CASE ResetGroups
  <2>1. worker.pc = "reset"
    BY <1>6 DEF ResetGroups
  <2>2. SUFFICES ASSUME NEW g \in Groups, groups[g].header # NoHeader,
                        groups[g].header \in Live
                 PROVE  groups'[g].header = groups[g].header
    BY DEF Recorded
  <2>3. groups[g].header \notin Created \ worker.failed
    BY <2>1, <2>2 DEF RollbackInv, Undone, Created, Live
  <2>4. groups'[g] = IF groups[g].status = "absent" THEN groups[g]
                     ELSE AfterRollback(groups[g], Created \ worker.failed, worker.failed)
    BY <1>6 DEF ResetGroups, resetAfterRollback
  <2>5. groups[g] \in GroupDocs
    BY <1>0
  <2>6. QED
    BY <2>2, <2>3, <2>4, <2>5 DEF AfterRollback, GroupDocs
<1>7. QED
  BY <1>1, <1>2, <1>4, <1>5, <1>6, Sides DEF Inside, PickUp, Processor, MarkActive,
     ListGroups, CheckPause, RecordWorkerStopped, CountGroup, MarkCompleted,
     FailJob, CancelBatch, Return, Throw, PostGroup, ReuseHeader, CreateHeader,
     CreateHeaderRejected, CreateHeaderUnanswered, PostLines,
     PostLinesRepeated, PostLinesRejected, RollBack, StartRollback,
     RollbackLines, RollbackHeader, RetainHeader, RollbackDone,
     KeepRetainedIds, Settle, StoreCreatedHeaderIds, SetPosted, StoreFault, Crash

(* Every live journal of this run is recorded.                             *)
LEMMA RunRecorded ==
  ASSUME JournalInv, RollbackInv, RequestInv, HeaderInv, Intact', Next
  PROVE  (Created \cap Live \subseteq Recorded)'
<1>0. /\ TypeInv /\ worker \in Workers /\ groups \in [Groups -> GroupDocs]
      /\ Created \subseteq HeaderIds
  <2>1. TypeInv /\ worker \in Workers /\ groups \in [Groups -> GroupDocs]
    BY DEF JournalInv, TypeInv, TypeOK, WorkerOK, GroupsOK
  <2>2. QED
    BY <2>1, Numbers DEF Created
<1>1. ASSUME NEW h \in Created, h \in Live'
      PROVE  h \in Recorded'
  <2>1. h \in Live
    BY <1>0, <1>1, LiveStep
  <2>2. QED
    BY <1>1, <2>1, RecordedStays DEF HeaderInv
<1>2. CASE ReuseHeader
  <2>1. worker.at \in Groups /\ worker.snap[worker.at].header # NoHeader
    BY <1>0, <1>2 DEF ReuseHeader, TypeInv, WorkerPosition
  <2>2. groups'[worker.at].header = worker.snap[worker.at].header
    BY <1>2 DEF ReuseHeader, HeaderInv
  <2>3. worker.snap[worker.at].header \in Recorded'
    BY <2>1, <2>2 DEF Recorded
  <2>4. QED
    BY <1>0, <1>1, <1>2, <2>3, CreatedStep DEF ReuseHeader, SetCreatedHeader
<1>3. CASE SetCreatedHeader
  <2>1. /\ worker.at \in Groups /\ worker.key # NoHeader
        /\ groups[worker.at] \in GroupDocs
    BY <1>0, <1>3 DEF SetCreatedHeader, TypeInv, WorkerPosition, HeaderIds, NoHeader
  <2>2. groups[worker.at].status # "absent"
    <3>1. job.status # "none"
      BY <1>3 DEF SetCreatedHeader, RequestInv
    <3>2. QED
      BY <2>1, <3>1 DEF RequestInv, Present
  <2>3. groups'[worker.at].header = worker.key
    BY <1>0, <1>3, <2>1, <2>2 DEF SetCreatedHeader, SetGroup, GroupDocs
  <2>4. worker.key \in Recorded'
    BY <2>1, <2>3 DEF Recorded
  <2>5. QED
    BY <1>0, <1>1, <1>3, <2>4, CreatedStep DEF ReuseHeader, SetCreatedHeader
<1>4. QED
  BY <1>0, <1>1, <1>2, <1>3, CreatedStep

(* The places from which the processor still works with its snapshot.      *)
LEMMA HeaderStep ==
  ASSUME JournalInv, RollbackInv, RequestInv, HeaderInv, Intact', Next
  PROVE  HeaderInv'
<1>0. /\ TypeInv /\ worker \in Workers /\ groups \in [Groups -> GroupDocs]
      /\ worker.at \in Nat /\ Groups \subseteq Nat
  BY Numbers, DurableQueueAssumption
  DEF JournalInv, TypeInv, TypeOK, WorkerOK, GroupsOK, DurableQueueAssumption, Groups
<1>1. (Created \cap Live \subseteq Recorded)'
  BY RunRecorded
<1>2. CASE worker'.pc \notin Loop
  BY <1>1, <1>2 DEF HeaderInv, Loop
<1>3. CASE Outside
  <2>1. UNCHANGED <<fo, worker>>
    BY <1>3, OutsideKeeps
  <2>2. CASE UNCHANGED groups
    BY <1>1, <2>1, <2>2 DEF HeaderInv, Created
  <2>3. CASE worker.pc = "idle"
    BY <1>2, <2>1, <2>3 DEF Loop
  <2>4. QED
    BY <1>3, <2>2, <2>3, OutsideGroups
<1>4. CASE worker' = IdleWorker \/ \E p \in WorkerPc \ Loop : Goto(p)
  BY <1>0, <1>2, <1>4 DEF IdleWorker, Goto, Workers, Loop
<1>5. CASE PickUp
  <2>1. worker'.pc = "start"
    BY <1>5, IdleWorkerType DEF PickUp, Workers
  <2>2. QED
    BY <1>2, <2>1 DEF Loop
<1>6. CASE ListGroups
  <2>1. /\ worker'.snap = groups /\ worker'.pc \in {"fail", "check"}
        /\ UNCHANGED groups
    BY <1>0, <1>6 DEF ListGroups, Workers
  <2>2. QED
    BY <1>1, <2>1 DEF HeaderInv
<1>7. CASE CheckPause
  <2>1. CASE Goto("settle") \/ Goto("stop")
    BY <1>4, <2>1 DEF WorkerPc, Loop
  <2>2. CASE \E g \in Unposted : worker' = [worker EXCEPT !.pc = "markGroup", !.at = g]
    <3>1. PICK g \in Unposted : worker' = [worker EXCEPT !.pc = "markGroup", !.at = g]
      BY <2>2
    <3>2. /\ worker'.snap = worker.snap /\ worker'.pc = "markGroup" /\ worker'.at = g
          /\ g \in Groups /\ g > worker.at
      BY <1>0, <3>1 DEF Workers, Unposted
    <3>3. UNCHANGED groups /\ worker.pc = "check"
      BY <1>7 DEF CheckPause
    <3>4. \A k \in Groups : k > g => k > worker.at
      <4>1. \A k \in Groups : k \in Nat
        BY <1>0
      <4>2. worker.at \in Nat /\ g \in Nat /\ g > worker.at
        BY <1>0, <3>2, <4>1
      <4>3. QED
        BY <4>1, <4>2
    <3>5. groups[g].header = worker.snap[g].header
      BY <3>2, <3>3 DEF HeaderInv, Loop
    <3>6. \A k \in Groups : k > g => groups[k].header = worker.snap[k].header
      BY <3>3, <3>4 DEF HeaderInv, Loop
    <3>7. QED
      BY <1>1, <3>2, <3>3, <3>5, <3>6 DEF HeaderInv
  <2>3. QED
    BY <1>7, <2>1, <2>2 DEF CheckPause
(* A step that gives no group another header.                              *)
<1>8. ASSUME NEW p \in WorkerPc, Goto(p), worker.pc \in Loop,
             \A g \in Groups : groups'[g].header = groups[g].header,
             p \in {"check", "count", "complete", "lines"} \/ (p = "open" /\ worker.pc = "markGroup"),
             p # "lines"
      PROVE  HeaderInv'
  <2>1. /\ worker'.snap = worker.snap /\ worker'.pc = p /\ worker'.at = worker.at
    BY <1>0, <1>8 DEF Goto, Workers
  <2>2. worker.pc = "markGroup" => worker.at \in Groups
    BY <1>0 DEF TypeInv, WorkerPosition
  <2>3. QED
    BY <1>1, <1>8, <2>1, <2>2 DEF HeaderInv
<1>9. CASE MarkGroupActive \/ CompleteGroup \/ CountGroup
  <2>1. \A g \in Groups : groups'[g].header = groups[g].header
    BY <1>0, <1>9 DEF MarkGroupActive, CompleteGroup, CountGroup, SetGroup, GroupDocs
  <2>2. QED
    BY <1>8, <1>9, <2>1 DEF MarkGroupActive, CompleteGroup, CountGroup, WorkerPc, Loop
<1>10. CASE PostLines \/ PostLinesRepeated
  BY <1>8, <1>10 DEF PostLines, PostLinesRepeated, WorkerPc, Loop
<1>11. CASE ReuseHeader
  <2>1. /\ worker'.pc = "lines" /\ worker'.at = worker.at /\ worker'.snap = worker.snap
        /\ worker'.key = worker.snap[worker.at].header
        /\ UNCHANGED groups /\ worker.pc \in Loop
    BY <1>0, <1>11 DEF ReuseHeader, Workers, Loop
  <2>2. worker.snap[worker.at].header \in Created'
    BY <1>0, <1>11, AppendsCreated DEF ReuseHeader, Workers
  <2>3. QED
    BY <1>1, <2>1, <2>2 DEF HeaderInv
<1>12. CASE CreateHeader
  <2>1. /\ worker'.pc = "record" /\ worker'.at = worker.at /\ worker'.snap = worker.snap
        /\ worker'.key = Len(fo) + 1 /\ worker.pc = "open"
        /\ UNCHANGED groups /\ worker.snap[worker.at].header = NoHeader
    BY <1>0, <1>12 DEF CreateHeader, Workers
  <2>2. fo'[Len(fo) + 1].lines = "none"
    BY <1>0, <1>12, LiveStep DEF CreateHeader, Creates
  <2>3. QED
    BY <1>1, <2>1, <2>2 DEF HeaderInv, Loop
<1>13. CASE CreateHeaderUnanswered
  <2>1. CASE UNCHANGED worker
    <3>1. UNCHANGED groups /\ worker.pc = "open"
      BY <1>13 DEF CreateHeaderUnanswered
    <3>2. QED
      BY <1>1, <2>1, <3>1 DEF HeaderInv
  <2>2. CASE Goto("caught")
    BY <1>4, <2>2 DEF WorkerPc, Loop
  <2>3. QED
    BY <1>13, <2>1, <2>2 DEF CreateHeaderUnanswered
<1>14. CASE SetCreatedHeader
  <2>1. /\ worker'.pc = "lines" /\ worker'.at = worker.at /\ worker'.snap = worker.snap
        /\ worker'.key = worker.key /\ worker.pc = "record"
    BY <1>0, <1>14 DEF SetCreatedHeader, Workers
  <2>2. \A g \in Groups : g > worker.at => groups'[g] = groups[g]
    BY <1>0, <1>14 DEF SetCreatedHeader, SetGroup
  <2>3. worker.key \in Created'
    BY <1>0, <1>14, AppendsCreated DEF SetCreatedHeader, Workers
  <2>4. QED
    BY <1>1, <2>1, <2>2, <2>3 DEF HeaderInv, Loop
<1>15. CASE RollBack
  <2>1. CASE StartRollback \/ RollbackLines \/ RollbackHeader \/ RetainHeader
    <3>1. worker'.pc \in {"fail", "rollback"}
      BY <1>0, <2>1 DEF StartRollback, RollbackLines, RollbackHeader, RetainHeader, Workers
    <3>2. QED
      BY <1>2, <3>1 DEF Loop
  <2>2. CASE RollbackDone \/ KeepRetainedIds \/ ResetGroups
    BY <1>4, <2>2 DEF RollbackDone, KeepRetainedIds, ResetGroups, WorkerPc, Loop
  <2>3. QED
    BY <1>15, <2>1, <2>2 DEF RollBack
<1>16. CASE \/ MarkActive \/ RecordWorkerStopped \/ MarkCompleted \/ FailJob
            \/ CancelBatch \/ Return \/ Throw \/ CreateHeaderRejected
            \/ PostLinesRejected \/ Settle \/ StoreFault \/ Crash
  BY <1>4, <1>16 DEF MarkActive, RecordWorkerStopped, MarkCompleted, FailJob,
     CancelBatch, Return, Throw, CreateHeaderRejected, PostLinesRejected,
     Settle, StoreCreatedHeaderIds, SetPosted, StoreFault, Crash, WorkerPc, Loop
<1>17. QED
  BY <1>3, <1>5, <1>6, <1>7, <1>9, <1>10, <1>11, <1>12, <1>13, <1>14, <1>15,
     <1>16, Sides DEF Inside, Processor, PostGroup
(* Where a journal that has been created can go.                           *)
LEMMA RecordsNext ==
  ASSUME Inside, worker.pc = "record"
  PROVE  SetCreatedHeader \/ StoreFault \/ Crash
  BY DEF Inside, PickUp, Processor, MarkActive, ListGroups, CheckPause,
     RecordWorkerStopped, MarkGroupActive, CompleteGroup, CountGroup,
     MarkCompleted, FailJob, CancelBatch, Return, Throw, PostGroup,
     ReuseHeader, CreateHeader, CreateHeaderRejected, CreateHeaderUnanswered,
     PostLines, PostLinesRepeated, PostLinesRejected, RollBack, StartRollback,
     RollbackLines, RollbackHeader, RetainHeader, RollbackDone,
     KeepRetainedIds, ResetGroups, Settle, StoreCreatedHeaderIds, SetPosted

(* Numbers the user has been given stay with the batch.                    *)
LEMMA IdsStay ==
  ASSUME TypeInv, Next, batch.exists
  PROVE  batch.dfoIds \subseteq batch'.dfoIds
<1>0. batch \in [exists : BOOLEAN, status : BatchStatus, paused : BOOLEAN,
                dfoIds : SUBSET HeaderIds]
  BY DEF TypeInv, TypeOK, BatchOK
<1>1. ASSUME NEW s \in Submitters, Submit(s)
      PROVE  batch.dfoIds \subseteq batch'.dfoIds
  BY <1>0, <1>1 DEF Submit, SubmitValidate, SubmitPrepare, SubmitLookup,
     SubmitMarkPosted, SubmitRemoveFailed, SubmitStorePrepare,
     ReplaceDeleteGroups, ReplaceInsertGroups, ReplaceUpsertJob, SubmitAdd, SetBatchStatus
<1>2. ASSUME Control
      PROVE  batch.dfoIds \subseteq batch'.dfoIds
  BY <1>0, <1>2 DEF Control, PauseRead, PauseSet, ResumeRead, ResumeClear,
     ResumeFindJob, RequeueCheck, RequeueAdd, MarkQueued, DeleteRead,
     DeletePause, DeleteRedisJob, DeletePurge, DeleteBatch, SetBatchPaused
<1>3. ASSUME PickUp \/ PromoteDelayed \/ Stalled \/ Processor \/ StoreFault \/ Crash \/ Boot
      PROVE  batch.dfoIds \subseteq batch'.dfoIds
  BY <1>0, <1>3 DEF PickUp, PromoteDelayed, Stalled, Processor, MarkActive, ListGroups,
     CheckPause, RecordWorkerStopped, MarkGroupActive, CompleteGroup, CountGroup,
     MarkCompleted, FailJob, CancelBatch, Return, Throw, StoreFault, Crash, Boot,
     ReleaseRead, ForceRemove, Restore, SetBatchStatus
<1>4. ASSUME PostGroup \/ RollBack \/ Settle
      PROVE  batch.dfoIds \subseteq batch'.dfoIds
  BY <1>0, <1>4 DEF PostGroup, ReuseHeader, CreateHeader, CreateHeaderRejected,
     CreateHeaderUnanswered, SetCreatedHeader, PostLines, PostLinesRepeated,
     PostLinesRejected, RollBack, StartRollback, RollbackLines, RollbackHeader,
     RetainHeader, RollbackDone, KeepRetainedIds, ResetGroups, Settle,
     StoreCreatedHeaderIds, SetPosted, SetBatchStatus, AddDfoIds
<1>5. QED
  BY <1>1, <1>2, <1>3, <1>4 DEF Next

(* What a step uses up.                                                    *)
LEMMA SpendStep ==
  ASSUME Next
  PROVE  \/ UNCHANGED spent \/ Spend("submits", MaxSubmits) \/ Spend("pauses", MaxPauses)
         \/ Spend("deletes", MaxDeletes) \/ Spend("faults", MaxFaults)
         \/ Spend("crashes", MaxCrashes)
<1>1. ASSUME NEW s \in Submitters, Submit(s)
      PROVE  UNCHANGED spent \/ Spend("submits", MaxSubmits)
  BY <1>1 DEF Submit, SubmitValidate, SubmitPrepare, SubmitLookup,
   SubmitMarkPosted, SubmitRemoveFailed, SubmitStorePrepare,
   ReplaceDeleteGroups, ReplaceInsertGroups, ReplaceUpsertJob, SubmitAdd
<1>2. ASSUME Control
      PROVE  UNCHANGED spent \/ Spend("pauses", MaxPauses) \/ Spend("deletes", MaxDeletes)
  BY <1>2 DEF Control, PauseRead, PauseSet, ResumeRead, ResumeClear,
   ResumeFindJob, RequeueCheck, RequeueAdd, MarkQueued, DeleteRead,
   DeletePause, DeleteRedisJob, DeletePurge, DeleteBatch
<1>3. ASSUME PickUp \/ PromoteDelayed \/ Stalled \/ Processor \/ Settle \/ Boot
      PROVE  UNCHANGED spent
  BY <1>3 DEF PickUp, PromoteDelayed, Stalled, Processor, MarkActive, ListGroups,
   CheckPause, RecordWorkerStopped, MarkGroupActive, CompleteGroup, CountGroup,
   MarkCompleted, FailJob, CancelBatch, Return, Throw, Boot,
   ReleaseRead, ForceRemove, Restore, Settle, StoreCreatedHeaderIds, SetPosted
<1>4. ASSUME PostGroup \/ RollBack \/ StoreFault \/ Crash
      PROVE  UNCHANGED spent \/ Spend("faults", MaxFaults) \/ Spend("crashes", MaxCrashes)
  BY <1>4 DEF PostGroup, ReuseHeader, CreateHeader, CreateHeaderRejected,
   CreateHeaderUnanswered, SetCreatedHeader, PostLines, PostLinesRepeated,
   PostLinesRejected, RollBack, StartRollback, RollbackLines, RollbackHeader,
   RetainHeader, RollbackDone, KeepRetainedIds, ResetGroups, StoreFault, Crash
<1>5. QED
  BY <1>1, <1>2, <1>3, <1>4 DEF Next

(* A fault or a crash is counted, and nothing uncounts one.                *)
Mishaps == spent.faults + spent.crashes

LEMMA MishapsStep ==
  ASSUME TypeInv, Next
  PROVE  /\ Mishaps \in Nat /\ Mishaps' \in Nat /\ Mishaps <= Mishaps'
         /\ StoreFault \/ Crash \/ CreateHeaderUnanswered => Mishaps' = Mishaps + 1
<1>0. spent \in [submits : Nat, pauses : Nat, deletes : Nat, faults : Nat, crashes : Nat]
  BY DEF TypeInv, TypeOK, RequestsOK
<1>2. Mishaps \in Nat /\ Mishaps' \in Nat /\ Mishaps <= Mishaps'
  BY <1>0, SpendStep DEF Spend, Mishaps
<1>3. ASSUME StoreFault \/ Crash \/ CreateHeaderUnanswered
      PROVE  Mishaps' = Mishaps + 1
  <2>1. Spend("faults", MaxFaults) \/ Spend("crashes", MaxCrashes)
    BY <1>3 DEF StoreFault, Crash, CreateHeaderUnanswered
  <2>2. QED
    BY <1>0, <2>1 DEF Spend, Mishaps
<1>4. QED
  BY <1>2, <1>3

(* At most one journal is forgotten at a time, an empty one, and only by a *)
(* fault or a crash.                                                       *)
LEMMA OrphansStep ==
  ASSUME JournalInv, RollbackInv, RequestInv, HeaderInv, Intact, Intact', Next
  PROVE  /\ \A h \in Orphans' \cap Orphans : fo'[h].lines = fo[h].lines
         /\ \/ Orphans' \subseteq Orphans
            \/ /\ Mishaps' = Mishaps + 1
               /\ \E x : Orphans' \subseteq Orphans \cup {x} /\ fo'[x].lines = "none"
<1>0. TypeInv /\ worker \in Workers /\ batch.exists
  BY DEF JournalInv, TypeInv, TypeOK, WorkerOK, Intact
<1>1. \A h \in Orphans : h \in HeaderIds /\ h \notin Created
  BY DEF Orphans, Live, Known
<1>2. \A h \in Orphans' \cap Orphans : fo'[h].lines = fo[h].lines
  <2>1. CASE Creates
    BY <1>0, <1>1, <2>1, LiveStep
  <2>2. CASE Edits
    BY <1>1, <2>2 DEF Edits, HeaderInv
  <2>3. QED
    BY <1>0, <2>1, <2>2, FinanceStep
(* What was known and is live is still known, but for the header of a      *)
(* journal that has just been created.                                     *)
<1>3. ASSUME NEW h \in Orphans', h \in Live, h \notin Orphans
      PROVE  worker.pc = "record" /\ h = worker.key
  <2>1. h \notin batch'.dfoIds /\ h \notin Recorded'
    BY <1>3 DEF Orphans, Known
  <2>2. h \notin batch.dfoIds
    BY <1>0, <2>1, IdsStay
  <2>3. h \notin Recorded
    BY <1>3, <2>1, RecordedStays
  <2>4. h \notin Created
    BY <1>3, <2>3 DEF HeaderInv
  <2>5. QED
    BY <1>3, <2>2, <2>3, <2>4 DEF Orphans, Known
<1>4. ASSUME NEW h \in Orphans', h \notin Orphans
      PROVE  /\ fo'[h].lines = "none" /\ Mishaps' = Mishaps + 1
             /\ h = IF worker.pc = "record" THEN worker.key ELSE Len(fo) + 1
  <2>1. h \in Live'
    BY <1>4 DEF Orphans
  <2>2. CASE h \in Live
    <3>1. worker.pc = "record" /\ h = worker.key
      BY <1>3, <1>4, <2>2
    <3>2. ~UNCHANGED worker
      BY <1>4, <3>1 DEF Orphans, Known
    <3>3. Inside
      BY <3>2, Sides, OutsideKeeps
    <3>4. ~SetCreatedHeader
      <4>1. ASSUME SetCreatedHeader PROVE h \in Created'
        BY <1>0, <3>1, <4>1, AppendsCreated DEF SetCreatedHeader, Workers
      <4>2. QED
        BY <1>4, <4>1 DEF Orphans, Known
    <3>5. StoreFault \/ Crash
      BY <3>1, <3>3, <3>4, RecordsNext
    <3>6. fo'[h].lines = "none"
      BY <1>0, <3>1, FinanceStep DEF HeaderInv
    <3>7. QED
      BY <1>0, <3>1, <3>5, <3>6, MishapsStep
  <2>3. CASE Creates /\ h = Len(fo) + 1
    <3>1. fo'[h].lines = "none" /\ worker.pc = "open"
      BY <1>0, <2>3, LiveStep DEF Creates
    <3>2. CreateHeader \/ CreateHeaderUnanswered
      <4>1. fo' # fo
        <5>1. fo \in Seq(Journals) /\ Len(fo') = Len(fo) + 1
          BY <1>0, <2>3 DEF Creates, TypeInv, TypeOK, FoOK
        <5>2. QED
          BY <5>1
      <4>2. Inside
        BY <4>1, Sides, OutsideKeeps
      <4>3. QED
        BY <3>1, <4>1, <4>2 DEF Inside, PickUp, Processor, MarkActive, ListGroups, CheckPause,
     RecordWorkerStopped, MarkGroupActive, CompleteGroup, CountGroup,
     MarkCompleted, FailJob, CancelBatch, Return, Throw, PostGroup,
     ReuseHeader, CreateHeaderRejected, SetCreatedHeader,
     PostLines, PostLinesRepeated, PostLinesRejected, RollBack, StartRollback,
     RollbackLines, RollbackHeader, RetainHeader, RollbackDone,
     KeepRetainedIds, ResetGroups, Settle, StoreCreatedHeaderIds, SetPosted, StoreFault, Crash
    <3>3. ~CreateHeader
      <4>1. ASSUME CreateHeader PROVE worker'.pc = "record" /\ worker'.key = h
        BY <1>0, <2>3, <4>1 DEF CreateHeader, Workers
      <4>2. QED
        BY <1>4, <4>1 DEF Orphans, Known
    <3>4. QED
      BY <1>0, <2>3, <3>1, <3>2, <3>3, MishapsStep
  <2>4. QED
    BY <1>0, <2>1, <2>2, <2>3, LiveStep
<1>5. QED
  <2>1. CASE Orphans' \subseteq Orphans
    BY <1>2, <2>1
  <2>2. CASE ~(Orphans' \subseteq Orphans)
    <3>1. PICK h \in Orphans' : h \notin Orphans
      BY <2>2
    <3>2. /\ fo'[h].lines = "none" /\ Mishaps' = Mishaps + 1
          /\ Orphans' \subseteq Orphans \cup {h}
      BY <1>4, <3>1
    <3>3. QED
      BY <1>2, <3>2
  <2>3. QED
    BY <2>1, <2>2

LEMMA OrphansFinite == ASSUME TypeInv PROVE IsFiniteSet(Orphans)
<1>1. IsFiniteSet(HeaderIds)
  BY FS_Interval DEF TypeInv, TypeOK, FoOK, HeaderIds
<1>2. QED
  BY <1>1, FS_Subset DEF Orphans, Live

LEMMA OrphanStep ==
  ASSUME JournalInv, RollbackInv, RequestInv, HeaderInv, OrphanInv,
         Intact, Intact', Next
  PROVE  OrphanInv'
<1>0. TypeInv
  BY DEF JournalInv
<1>1. IsFiniteSet(Orphans)
  BY <1>0, OrphansFinite
<1>2. Cardinality(Orphans) \in Nat /\ Cardinality(Orphans) <= Mishaps
  BY <1>1, FS_CardinalityType DEF OrphanInv, Mishaps
<1>3. CASE Orphans' \subseteq Orphans
  <2>1. Cardinality(Orphans') \in Nat /\ Cardinality(Orphans') <= Cardinality(Orphans)
    BY <1>1, <1>3, FS_Subset, FS_CardinalityType
  <2>2. Cardinality(Orphans') <= Mishaps'
    BY <1>0, <1>2, <2>1, MishapsStep
  <2>3. \A h \in Orphans' : fo'[h].lines = "none"
    BY <1>3, OrphansStep DEF OrphanInv
  <2>4. QED
    BY <2>2, <2>3 DEF OrphanInv, Mishaps
<1>4. CASE \E x : /\ Orphans' \subseteq Orphans \cup {x} /\ fo'[x].lines = "none"
                  /\ Mishaps' = Mishaps + 1
  <2>1. PICK x : /\ Orphans' \subseteq Orphans \cup {x} /\ fo'[x].lines = "none"
                 /\ Mishaps' = Mishaps + 1
    BY <1>4
  <2>2. /\ IsFiniteSet(Orphans \cup {x})
        /\ Cardinality(Orphans \cup {x}) \in Nat
        /\ Cardinality(Orphans \cup {x}) <= Cardinality(Orphans) + 1
    BY <1>1, <1>2, FS_AddElement, FS_CardinalityType
  <2>3. Cardinality(Orphans') \in Nat /\ Cardinality(Orphans') <= Cardinality(Orphans) + 1
    <3>1. IsFiniteSet(Orphans') /\ Cardinality(Orphans') <= Cardinality(Orphans \cup {x})
      BY <2>1, <2>2, FS_Subset
    <3>2. QED
      BY <1>2, <2>2, <3>1, FS_CardinalityType
  <2>4. Cardinality(Orphans') <= Mishaps'
    BY <1>0, <1>2, <2>1, <2>3, MishapsStep
  <2>5. \A h \in Orphans' : fo'[h].lines = "none"
    BY <2>1, OrphansStep DEF OrphanInv
  <2>6. QED
    BY <2>4, <2>5 DEF OrphanInv, Mishaps
<1>5. QED
  BY <1>3, <1>4, OrphansStep

LEMMA KnownInvInit == Init => KnownInv
<1> SUFFICES ASSUME Init PROVE KnownInv
  OBVIOUS
<1>1. JournalInv /\ DeletesCounted /\ RollbackInv
  BY JournalInvInit DEF Init, DeletesCounted, RollbackInv, IdleWorker
<1>2. RequestInv
  BY DEF Init, RequestInv, IdleWorker, NoRedisJob, BeforeJob
<1>3. Live = {}
  BY DEF Init, Live, HeaderIds
<1>4. HeaderInv
  BY <1>3 DEF Init, HeaderInv, IdleWorker, Loop
<1>5. OrphanInv
  <2>1. Orphans = {} /\ Mishaps = 0
    BY <1>3 DEF Init, Orphans, Mishaps
  <2>2. QED
    BY <2>1, FS_EmptySet DEF OrphanInv, Mishaps
<1>6. QED
  BY <1>1, <1>2, <1>4, <1>5 DEF KnownInv

LEMMA KnownInvStep == KnownInv /\ [Next]_vars => KnownInv'
<1> SUFFICES ASSUME KnownInv, [Next]_vars PROVE KnownInv'
  OBVIOUS
<1>1. JournalInv' /\ TypeInv
  BY JournalInvStep DEF KnownInv, JournalInv
<1>2. CASE Next
  <2>1. DeletesCounted' /\ (Intact' => Intact)
    BY <1>1, <1>2, IntactBefore DEF KnownInv
  <2>2. RollbackInv'
    BY <1>2, RollbackStep DEF KnownInv
  <2>3. ASSUME Intact' PROVE RequestInv' /\ HeaderInv' /\ OrphanInv'
    BY <1>1, <1>2, <2>1, <2>3, RequestStep, HeaderStep, OrphanStep DEF KnownInv
  <2>4. QED
    BY <1>1, <2>1, <2>2, <2>3 DEF KnownInv
<1>3. CASE UNCHANGED vars
  <2>1. (Live' = Live) /\ (Created' = Created) /\ (Known' = Known) /\ (Recorded' = Recorded)
        /\ (Present' = Present) /\ (Intact' <=> Intact)
    BY <1>3 DEF vars, Live, HeaderIds, Created, Known, Recorded, Present, Intact
  <2>2. DeletesCounted' /\ RollbackInv'
    BY <1>3 DEF KnownInv, vars, DeletesCounted, RollbackInv, Undone
  <2>3. RequestInv => RequestInv'
    BY <1>3, <2>1 DEF vars, RequestInv
  <2>4. HeaderInv => HeaderInv'
    BY <1>3, <2>1 DEF vars, HeaderInv
  <2>5. OrphanInv => OrphanInv'
    BY <1>3, <2>1 DEF vars, OrphanInv, Orphans
  <2>6. QED
    BY <1>1, <2>1, <2>2, <2>3, <2>4, <2>5 DEF KnownInv
<1>4. QED
  BY <1>2, <1>3

(* While the groups of the request are there, a crash or a lost answer can *)
(* leave an empty journal nobody knows of, at most one each; a journal with*)
(* lines is always known (setCreatedHeader comes before the lines).        *)
THEOREM OrphansCounted == Spec => []OrphansAreEmptyAndCounted
<1>1. KnownInv => OrphansAreEmptyAndCounted
  BY DEF KnownInv, OrphanInv, Orphans, OrphansAreEmptyAndCounted
<1>2. QED
  BY <1>1, KnownInvInit, KnownInvStep, PTL DEF Spec
-----------------------------------------------------------------------------
(* Nothing is forgotten while everybody answers.                           *)

(* Without a pause, a run ends only when it is complete or rolled back, so *)
(* between two runs the batch lists all there is in Finance, whatever      *)
(* other requests do to the groups.                                        *)
BetweenRuns == {"idle", "start", "list", "posted", "finish", "reset", "fail",
                "cancel", "throw", "return"}

HomeInv ==
  /\ batch.exists /\ ~batch.paused /\ ctl = "idle" /\ worker.pc # "stop"
  /\ Live \subseteq batch.dfoIds \cup Created
                   \cup (IF worker.pc = "record" THEN {worker.key} ELSE {})
  /\ worker.pc = "keepIds" => Live \subseteq batch.dfoIds \cup worker.failed
  /\ worker.pc \in BetweenRuns => Live \subseteq batch.dfoIds

FoundInv == KnownInv /\ (Undisturbed => HomeInv)

(* Who is undisturbed has been so far, and keeps the batch as it is.       *)
LEMMA UndisturbedStep ==
  ASSUME TypeInv, Next, Undisturbed', Undisturbed => HomeInv
  PROVE  /\ Undisturbed /\ HomeInv
         /\ ~Control /\ ~StoreFault /\ ~Crash /\ ~CreateHeaderUnanswered
         /\ batch'.exists /\ ~batch'.paused /\ ctl' = "idle"
<1>0. /\ spent \in [submits : Nat, pauses : Nat, deletes : Nat, faults : Nat, crashes : Nat]
      /\ batch \in [exists : BOOLEAN, status : BatchStatus, paused : BOOLEAN,
                    dfoIds : SUBSET HeaderIds]
  BY DEF TypeInv, TypeOK, RequestsOK, BatchOK
<1>1. /\ spent'.pauses + spent'.deletes + spent'.faults + spent'.crashes = 0
      /\ spent' \in [submits : Nat, pauses : Nat, deletes : Nat, faults : Nat, crashes : Nat]
  BY TypeInvStep DEF Undisturbed, TypeInv, TypeOK, RequestsOK
<1>2. /\ spent'.pauses = 0 /\ spent'.deletes = 0 /\ spent'.faults = 0 /\ spent'.crashes = 0
  BY <1>1
<1>3. ~Spend("pauses", MaxPauses) /\ ~Spend("deletes", MaxDeletes)
      /\ ~Spend("faults", MaxFaults) /\ ~Spend("crashes", MaxCrashes)
  BY <1>0, <1>2 DEF Spend
<1>4. ~StoreFault /\ ~Crash /\ ~CreateHeaderUnanswered
  BY <1>3 DEF StoreFault, Crash, CreateHeaderUnanswered
<1>5. Undisturbed
  <2>1. UNCHANGED spent \/ Spend("submits", MaxSubmits)
    BY <1>3, SpendStep
  <2>2. QED
    BY <1>0, <1>2, <2>1 DEF Spend, Undisturbed
<1>6. ~Control
  BY <1>3, <1>5 DEF HomeInv, Control, PauseRead, PauseSet, ResumeRead, ResumeClear,
     ResumeFindJob, RequeueCheck, RequeueAdd, MarkQueued, DeleteRead,
     DeletePause, DeleteRedisJob, DeletePurge, DeleteBatch
<1>7. UNCHANGED ctl
  <2>1. ASSUME NEW s \in Submitters, Submit(s)
        PROVE  UNCHANGED ctl
    BY <2>1 DEF Submit, SubmitValidate, SubmitPrepare, SubmitLookup,
     SubmitMarkPosted, SubmitRemoveFailed, SubmitStorePrepare,
     ReplaceDeleteGroups, ReplaceInsertGroups, ReplaceUpsertJob, SubmitAdd
  <2>2. ASSUME PickUp \/ PromoteDelayed \/ Stalled \/ Boot
        PROVE  UNCHANGED ctl
    BY <2>2 DEF PickUp, PromoteDelayed, Stalled, Boot, ReleaseRead, ForceRemove, Restore
  <2>3. QED
    BY <1>4, <1>6, <2>1, <2>2, GroupsStay DEF Next
<1>8. batch'.exists = batch.exists /\ batch'.paused = batch.paused
  <2>1. ASSUME NEW s \in Submitters, Submit(s)
        PROVE  batch'.exists = batch.exists /\ batch'.paused = batch.paused
    BY <1>0, <2>1 DEF Submit, SubmitValidate, SubmitPrepare, SubmitLookup,
     SubmitMarkPosted, SubmitRemoveFailed, SubmitStorePrepare,
     ReplaceDeleteGroups, ReplaceInsertGroups, ReplaceUpsertJob, SubmitAdd, SetBatchStatus
  <2>2. CASE UNCHANGED batch
    BY <2>2
  <2>3. CASE CancelBatch \/ SetPosted \/ KeepRetainedIds \/ StoreCreatedHeaderIds
    BY <1>0, <2>3 DEF CancelBatch, SetPosted, KeepRetainedIds, StoreCreatedHeaderIds,
       SetBatchStatus, AddDfoIds
  <2>4. QED
    BY <1>4, <1>6, <2>1, <2>2, <2>3 DEF Next, PickUp, PromoteDelayed, Stalled, Boot,
     ReleaseRead, ForceRemove, Restore, Processor, MarkActive,
     ListGroups, CheckPause, RecordWorkerStopped, MarkGroupActive,
     CompleteGroup, CountGroup, MarkCompleted, FailJob, Return, Throw,
     PostGroup, ReuseHeader, CreateHeader, CreateHeaderRejected,
     SetCreatedHeader, PostLines, PostLinesRepeated, PostLinesRejected,
     RollBack, StartRollback, RollbackLines, RollbackHeader, RetainHeader,
     RollbackDone, ResetGroups, Settle
<1>9. QED
  BY <1>4, <1>5, <1>6, <1>7, <1>8 DEF HomeInv

LEMMA HomeStep ==
  ASSUME KnownInv, HomeInv, Next, ~Control, ~StoreFault, ~Crash,
         ~CreateHeaderUnanswered, batch'.exists, ~batch'.paused, ctl' = "idle"
  PROVE  HomeInv'
<1>0. /\ TypeInv /\ worker \in Workers /\ worker.created \in Seq(HeaderIds)
      /\ RollbackInv
      /\ batch \in [exists : BOOLEAN, status : BatchStatus, paused : BOOLEAN,
                    dfoIds : SUBSET HeaderIds]
  BY DEF KnownInv, JournalInv, TypeInv, TypeOK, WorkerOK, Workers, BatchOK
<1>1. batch.dfoIds \subseteq batch'.dfoIds
  BY <1>0, IdsStay DEF HomeInv
<1>2. ~Creates => Live' \subseteq Live
  BY <1>0, LiveStep
(* The run goes on with the same list of journals.                         *)
<1>3. ASSUME ~Creates, Created \subseteq Created', worker.pc # "record", worker'.pc # "stop",
             worker'.pc \in BetweenRuns => worker.pc \in BetweenRuns,
             worker'.pc = "keepIds" => worker.pc = "keepIds",
             worker.pc = "keepIds" => worker.failed \subseteq worker'.failed
      PROVE  HomeInv'
  BY <1>1, <1>2, <1>3 DEF HomeInv
(* What this step leaves in Finance is listed.                             *)
<1>4. ASSUME Live' \subseteq batch'.dfoIds, worker'.pc # "stop"
      PROVE  HomeInv'
  BY <1>4 DEF HomeInv
<1>5. CASE Outside
  <2>1. UNCHANGED <<fo, worker>>
    BY <1>5, OutsideKeeps
  <2>2. Live' = Live /\ Created' = Created
    BY <2>1 DEF Live, HeaderIds, Created
  <2>3. QED
    BY <1>1, <2>1, <2>2 DEF HomeInv
<1>6. CASE /\ worker.pc \in BetweenRuns /\ worker'.pc # "stop" /\ UNCHANGED fo
  <2>1. Live' = Live
    BY <1>6 DEF Live, HeaderIds
  <2>2. QED
    BY <1>1, <1>4, <1>6, <2>1 DEF HomeInv
<1>7. CASE \/ PickUp \/ MarkActive \/ ListGroups \/ MarkCompleted \/ FailJob
           \/ CancelBatch \/ Return \/ Throw \/ SetPosted \/ ResetGroups
  <2>1. worker.pc \in BetweenRuns /\ UNCHANGED fo
    BY <1>7 DEF PickUp, MarkActive, ListGroups, MarkCompleted, FailJob, CancelBatch,
       Return, Throw, SetPosted, ResetGroups, BetweenRuns
  <2>2. worker'.pc # "stop"
    <3>1. CASE PickUp
      BY <3>1, IdleWorkerType DEF PickUp, Workers
    <3>2. CASE Return \/ Throw
      BY <3>2 DEF Return, Throw, IdleWorker
    <3>3. CASE \/ MarkActive \/ ListGroups \/ MarkCompleted \/ FailJob
               \/ CancelBatch \/ SetPosted \/ ResetGroups
      BY <1>0, <3>3 DEF MarkActive, ListGroups, MarkCompleted, FailJob, CancelBatch,
         SetPosted, ResetGroups, Goto, Workers
    <3>4. QED
      BY <1>7, <3>1, <3>2, <3>3
  <2>3. QED
    BY <1>6, <2>1, <2>2
<1>8. ASSUME ~Creates, worker.pc \notin {"record", "keepIds"}, worker'.created = worker.created,
             worker'.pc \notin BetweenRuns \cup {"stop", "keepIds"}
      PROVE  HomeInv'
  <2>1. Created' = Created
    BY <1>8 DEF Created
  <2>2. QED
    BY <1>3, <1>8, <2>1
<1>9. CASE \/ CheckPause \/ MarkGroupActive \/ CompleteGroup \/ CountGroup
           \/ CreateHeaderRejected \/ PostLinesRejected
           \/ RollbackLines \/ RollbackHeader \/ RetainHeader
  <2>1. ~Goto("stop")
    BY <1>0, <1>9 DEF HomeInv, CheckPause, MarkGroupActive, CompleteGroup, CountGroup,
       CreateHeaderRejected, PostLinesRejected, RollbackLines, RollbackHeader,
       RetainHeader, Goto, Workers
  <2>2. /\ worker'.created = worker.created
        /\ worker'.pc \in {"settle", "markGroup", "open", "count", "check", "caught", "rollback"}
    <3>1. CASE CheckPause
      BY <1>0, <2>1, <3>1 DEF CheckPause, Goto, Workers
    <3>2. CASE \/ MarkGroupActive \/ CompleteGroup \/ CountGroup
               \/ CreateHeaderRejected \/ PostLinesRejected
      BY <1>0, <3>2 DEF MarkGroupActive, CompleteGroup, CountGroup, CreateHeaderRejected,
         PostLinesRejected, Goto, Workers
    <3>3. CASE RollbackLines \/ RollbackHeader \/ RetainHeader
      BY <1>0, <3>3 DEF RollbackLines, RollbackHeader, RetainHeader, Workers
    <3>4. QED
      BY <1>9, <3>1, <3>2, <3>3
  <2>3. ~Creates /\ worker.pc \notin {"record", "keepIds"}
    <3>1. worker.pc = "open" => UNCHANGED fo
      BY <1>9 DEF CheckPause, MarkGroupActive, CompleteGroup, CountGroup,
       CreateHeaderRejected, PostLinesRejected, RollbackLines, RollbackHeader, RetainHeader
    <3>2. ~Creates
      <4>1. fo \in Seq(Journals)
        BY <1>0 DEF TypeInv, TypeOK, FoOK
      <4>2. QED
        BY <3>1, <4>1 DEF Creates
    <3>3. QED
      BY <1>9, <3>2 DEF CheckPause, MarkGroupActive, CompleteGroup, CountGroup,
       CreateHeaderRejected, PostLinesRejected, RollbackLines, RollbackHeader, RetainHeader
  <2>4. QED
    BY <1>8, <2>2, <2>3 DEF BetweenRuns
<1>10. CASE PostLines \/ PostLinesRepeated
  <2>1. /\ worker.pc = "lines" /\ worker'.created = worker.created
        /\ worker'.pc = "complete"
    BY <1>0, <1>10 DEF PostLines, PostLinesRepeated, Goto, Workers
  <2>2. QED
    BY <1>8, <2>1 DEF Creates, BetweenRuns
<1>11. CASE ReuseHeader
  <2>1. /\ worker.pc = "open" /\ worker'.pc = "lines" /\ UNCHANGED fo
    BY <1>0, <1>11 DEF ReuseHeader, Workers
  <2>2. ~Creates
    BY <1>0, <2>1 DEF Creates, TypeInv, TypeOK, FoOK
  <2>3. Created \subseteq Created'
    BY <1>0, <1>11, AppendsCreated DEF ReuseHeader, Workers
  <2>4. QED
    BY <1>3, <2>1, <2>2, <2>3 DEF BetweenRuns
<1>12. CASE CreateHeader
  <2>1. /\ worker.pc = "open" /\ worker'.pc = "record" /\ worker'.key = Len(fo) + 1
        /\ worker'.created = worker.created
    BY <1>0, <1>12 DEF CreateHeader, Workers
  <2>2. Live' \subseteq Live \cup {Len(fo) + 1} /\ Created' = Created
    BY <1>0, <2>1, LiveStep DEF Created
  <2>3. QED
    BY <1>1, <2>1, <2>2 DEF HomeInv, BetweenRuns
<1>13. CASE SetCreatedHeader
  <2>1. /\ worker.pc = "record" /\ worker'.pc = "lines"
    BY <1>0, <1>13 DEF SetCreatedHeader, Workers
  <2>2. Created \cup {worker.key} \subseteq Created'
    BY <1>0, <1>13, AppendsCreated DEF SetCreatedHeader, Workers
  <2>3. Live' \subseteq Live
    BY <1>2, <2>1 DEF Creates
  <2>4. QED
    BY <1>1, <2>1, <2>2, <2>3 DEF HomeInv, BetweenRuns
<1>14. CASE StartRollback
  <2>1. worker.pc = "caught" /\ UNCHANGED fo /\ worker'.created = worker.created
        /\ worker'.pc \in {"fail", "rollback"}
    BY <1>0, <1>14 DEF StartRollback, Workers
  <2>2. CASE worker'.pc = "rollback"
    BY <1>8, <2>1, <2>2 DEF Creates, BetweenRuns
  <2>3. CASE worker'.pc = "fail"
    <3>1. worker.created = <<>>
      BY <1>0, <1>14, <2>3 DEF StartRollback, Workers
    <3>2. Created = {}
      BY <3>1 DEF Created
    <3>3. Live' = Live
      BY <2>1 DEF Live, HeaderIds
    <3>4. QED
      BY <1>1, <1>4, <2>1, <2>3, <3>2, <3>3 DEF HomeInv
  <2>4. QED
    BY <2>1, <2>2, <2>3
<1>15. CASE RollbackDone
  <2>1. /\ worker.pc = "rollback" /\ worker.undo = 0 /\ UNCHANGED fo
        /\ worker'.failed = worker.failed
        /\ worker'.pc = IF worker.failed = {} THEN "reset" ELSE "keepIds"
    BY <1>0, <1>15 DEF RollbackDone, Goto, Workers
  <2>2. \A h \in Created : h \in Live => h \in worker.failed
    BY <1>0, <2>1 DEF RollbackInv, Undone, Created, Live
  <2>3. Live \subseteq batch'.dfoIds \cup worker.failed
    BY <1>1, <2>1, <2>2 DEF HomeInv
  <2>4. Live' = Live
    BY <2>1 DEF Live, HeaderIds
  <2>5. CASE worker.failed = {}
    BY <1>4, <2>1, <2>3, <2>4, <2>5
  <2>6. CASE worker.failed # {}
    <3>1. Live' \subseteq (batch.dfoIds \cup Created)
      BY <2>1, <2>4 DEF HomeInv
    <3>2. Created' = Created
      BY <1>0, <1>15 DEF RollbackDone, Goto, Workers, Created
    <3>3. QED
      BY <1>1, <2>1, <2>3, <2>4, <2>6, <3>1, <3>2 DEF HomeInv, BetweenRuns
  <2>7. QED
    BY <2>5, <2>6
<1>16. CASE KeepRetainedIds
  <2>1. /\ worker.pc = "keepIds" /\ worker'.pc = "reset" /\ UNCHANGED fo
        /\ batch'.dfoIds = batch.dfoIds \cup worker.failed
    BY <1>0, <1>16 DEF KeepRetainedIds, Goto, Workers, AddDfoIds, HomeInv
  <2>2. Live' = Live
    BY <2>1 DEF Live, HeaderIds
  <2>3. QED
    BY <1>4, <2>1, <2>2 DEF HomeInv
<1>17. CASE StoreCreatedHeaderIds
  <2>1. /\ worker.pc = "settle" /\ worker'.pc = "posted" /\ UNCHANGED fo
        /\ Created \subseteq batch'.dfoIds
    BY <1>0, <1>17 DEF StoreCreatedHeaderIds, Goto, Workers, AddDfoIds, HomeInv
  <2>2. Live' = Live
    BY <2>1 DEF Live, HeaderIds
  <2>3. QED
    BY <1>1, <1>4, <2>1, <2>2 DEF HomeInv
<1>18. CASE RecordWorkerStopped
  BY <1>18 DEF RecordWorkerStopped, HomeInv
<1>19. QED
  BY <1>0, <1>5, <1>7, <1>9, <1>10, <1>11, <1>12, <1>13, <1>14, <1>15, <1>16,
     <1>17, <1>18, Sides DEF Inside, Processor, PostGroup, RollBack, Settle

LEMMA FoundInvStep == FoundInv /\ [Next]_vars => FoundInv'
<1> SUFFICES ASSUME FoundInv, [Next]_vars PROVE FoundInv'
  OBVIOUS
<1>1. KnownInv' /\ TypeInv
  BY KnownInvStep DEF FoundInv, KnownInv, JournalInv
<1>2. CASE Next
  <2>1. ASSUME Undisturbed' PROVE HomeInv'
    BY <1>1, <1>2, <2>1, UndisturbedStep, HomeStep DEF FoundInv
  <2>2. QED
    BY <1>1, <2>1 DEF FoundInv
<1>3. CASE UNCHANGED vars
  <2>1. (Live' = Live) /\ (Created' = Created) /\ (Undisturbed' <=> Undisturbed)
    BY <1>3 DEF vars, Live, HeaderIds, Created, Undisturbed
  <2>2. HomeInv => HomeInv'
    BY <1>3, <2>1 DEF vars, HomeInv
  <2>3. QED
    BY <1>1, <2>1, <2>2 DEF FoundInv
<1>4. QED
  BY <1>2, <1>3

(* As long as MongoDB and Finance answer, every journal in Finance is      *)
(* known to the batch, to a group or to the processor: with one request    *)
(* however it is paused and resumed, and with any number of them when      *)
(* nobody pauses.                                                          *)
THEOREM NothingUnknown == Spec => []NoUnknownJournal
<1>1. Init => FoundInv
  <2>1. Init => Live = {}
    BY DEF Init, Live, HeaderIds
  <2>2. QED
    BY <2>1, KnownInvInit DEF Init, FoundInv, HomeInv, IdleWorker
<1>2. FoundInv => NoUnknownJournal
  <2> SUFFICES ASSUME FoundInv, batch.exists, ctl # "deleteBatch",
                      spent.faults + spent.crashes = 0,
                      spent.pauses + spent.deletes = 0 \/ spent.submits = 1
               PROVE  Live \subseteq Known
    BY DEF NoUnknownJournal
  <2>1. spent \in [submits : Nat, pauses : Nat, deletes : Nat, faults : Nat, crashes : Nat]
    BY DEF FoundInv, KnownInv, JournalInv, TypeInv, TypeOK, RequestsOK
  <2>2. CASE spent.pauses + spent.deletes = 0
    <3>1. Undisturbed
      BY <2>1, <2>2 DEF Undisturbed
    <3>2. QED
      BY <3>1 DEF FoundInv, HomeInv, Known
  <2>3. CASE spent.submits = 1
    <3>1. Intact /\ Mishaps = 0
      BY <2>1, <2>3 DEF Intact, Mishaps
    <3>2. IsFiniteSet(Orphans)
      BY OrphansFinite DEF FoundInv, KnownInv, JournalInv
    <3>3. Cardinality(Orphans) \in Nat /\ Cardinality(Orphans) <= 0
      BY <3>1, <3>2, FS_CardinalityType DEF FoundInv, KnownInv, OrphanInv, Mishaps
    <3>4. Orphans = {}
      BY <3>2, <3>3, FS_EmptySet
    <3>5. QED
      BY <3>4 DEF Orphans
  <2>4. QED
    BY <2>2, <2>3
<1>3. QED
  BY <1>1, <1>2, FoundInvStep, PTL DEF Spec

-----------------------------------------------------------------------------
(* A pause or a deletion lets at most the current journal through.         *)

(* StopsAfterTheCurrentJournal needs to know where the processor can be    *)
(* when its journal has been counted: past the places from which it would  *)
(* start another one without asking for the pause again.                   *)
BeforeJournal == {"markGroup", "open"}

LateInv ==
  /\ TypeInv
  /\ late \in {0, 1}
  /\ ~Stopped => late = 0
  /\ late = 1 => worker.pc \notin BeforeJournal

(* The only way to a new journal is through a pause flag that was not set. *)
LEMMA StartsUnpaused ==
  ASSUME TypeInv, Next, worker'.pc \in BeforeJournal
  PROVE  worker.pc \in BeforeJournal \/ (~Stopped /\ ~Stopped')
<1>0. worker \in Workers
  BY DEF TypeInv, TypeOK, WorkerOK
<1>1. CASE UNCHANGED worker
  BY <1>1
<1>2. CASE worker' = IdleWorker
  BY <1>2 DEF IdleWorker, BeforeJournal
<1>3. CASE \E p \in WorkerPc \ BeforeJournal : Goto(p)
  BY <1>0, <1>3 DEF Goto, Workers
<1>4. ASSUME NEW s \in Submitters, Submit(s) PROVE UNCHANGED worker
  BY <1>4 DEF Submit, SubmitValidate, SubmitPrepare, SubmitLookup,
     SubmitMarkPosted, SubmitRemoveFailed, SubmitStorePrepare,
     ReplaceDeleteGroups, ReplaceInsertGroups, ReplaceUpsertJob, SubmitAdd
<1>5. ASSUME Control PROVE UNCHANGED worker
  BY <1>5 DEF Control, PauseRead, PauseSet, ResumeRead, ResumeClear,
     ResumeFindJob, RequeueCheck, RequeueAdd, MarkQueued, DeleteRead,
     DeletePause, DeleteRedisJob, DeletePurge, DeleteBatch
<1>6. CASE PickUp
  <2>1. worker'.pc = "start"
    BY <1>6, IdleWorkerType DEF PickUp, Workers
  <2>2. QED
    BY <2>1 DEF BeforeJournal
<1>7. ASSUME PromoteDelayed \/ Stalled \/ Boot PROVE UNCHANGED worker
  BY <1>7 DEF PromoteDelayed, Stalled, Boot, ReleaseRead, ForceRemove, Restore
<1>8. CASE Processor
  <2>1. CASE CheckPause
    <3>1. CASE Goto("settle") \/ Goto("stop")
      BY <1>3, <3>1 DEF WorkerPc, BeforeJournal
    <3>2. CASE ~batch.paused /\ batch.exists
      BY <2>1, <3>2 DEF CheckPause, Stopped
    <3>3. QED
      BY <2>1, <3>1, <3>2 DEF CheckPause
  <2>2. CASE MarkGroupActive
    BY <2>2 DEF MarkGroupActive, BeforeJournal
  <2>3. CASE ListGroups
    <3>1. PICK p \in {"fail", "check"} :
            worker' = [worker EXCEPT !.snap = groups, !.pc = p]
      BY <2>3 DEF ListGroups
    <3>2. QED
      BY <1>0, <3>1 DEF Workers, BeforeJournal
  <2>4. ASSUME \/ MarkActive \/ RecordWorkerStopped \/ CompleteGroup
               \/ CountGroup \/ MarkCompleted \/ FailJob \/ CancelBatch
        PROVE  \E p \in WorkerPc \ BeforeJournal : Goto(p)
    BY <2>4 DEF MarkActive, RecordWorkerStopped, CompleteGroup, CountGroup,
       MarkCompleted, FailJob, CancelBatch, WorkerPc, BeforeJournal
  <2>5. CASE Return \/ Throw
    BY <1>2, <2>5 DEF Return, Throw
  <2>6. QED
    BY <1>3, <1>8, <2>1, <2>2, <2>3, <2>4, <2>5 DEF Processor
<1>9. CASE PostGroup
  <2>1. CASE worker.pc = "open"
    BY <2>1 DEF BeforeJournal
  <2>2. CASE SetCreatedHeader
    BY <1>0, <2>2 DEF SetCreatedHeader, Workers, BeforeJournal
  <2>3. CASE PostLines \/ PostLinesRepeated \/ PostLinesRejected
    BY <1>3, <2>3 DEF PostLines, PostLinesRepeated, PostLinesRejected,
       WorkerPc, BeforeJournal
  <2>4. QED
    BY <1>9, <2>1, <2>2, <2>3 DEF PostGroup, ReuseHeader, CreateHeader,
       CreateHeaderRejected, CreateHeaderUnanswered
<1>10. CASE RollBack \/ Settle
  <2>1. CASE StartRollback
    BY <1>0, <2>1 DEF StartRollback, Workers, BeforeJournal
  <2>2. CASE RollbackHeader \/ RetainHeader
    BY <1>0, <2>2 DEF RollbackHeader, RetainHeader, Workers, BeforeJournal
  <2>3. CASE RollbackDone \/ KeepRetainedIds \/ ResetGroups \/ Settle
    BY <1>3, <2>3 DEF RollbackDone, KeepRetainedIds, ResetGroups, Settle,
       StoreCreatedHeaderIds, SetPosted, WorkerPc, BeforeJournal
  <2>4. CASE RollbackLines
    BY <1>1, <2>4 DEF RollbackLines
  <2>5. QED
    BY <1>10, <2>1, <2>2, <2>3, <2>4 DEF RollBack
<1>11. CASE StoreFault
  BY <1>3, <1>11 DEF StoreFault, WorkerPc, BeforeJournal
<1>12. CASE Crash
  BY <1>2, <1>12 DEF Crash
<1>13. QED
  BY <1>1, <1>4, <1>5, <1>6, <1>7, <1>8, <1>9, <1>10, <1>11, <1>12 DEF Next

LEMMA LateInvStep == LateInv /\ [HNext]_<<vars, late>> => LateInv'
<1> SUFFICES ASSUME LateInv, [HNext]_<<vars, late>> PROVE LateInv'
  OBVIOUS
<1>1. TypeInv'
  BY TypeInvStep DEF LateInv, HNext, vars
<1>2. CASE UNCHANGED <<vars, late>>
  BY <1>1, <1>2 DEF LateInv, vars, Stopped
<1>3. CASE HNext
  <2>1. CASE ~Stopped'
    BY <1>1, <1>3, <2>1 DEF HNext, LateInv
  <2>2. CASE Stopped' /\ StartsJournal
    BY <1>1, <1>3, <2>2 DEF HNext, LateInv, StartsJournal, BeforeJournal
  <2>3. CASE Stopped' /\ ~StartsJournal
    <3>1. late' = late
      BY <1>3, <2>3 DEF HNext
    <3>2. late = 1 => worker'.pc \notin BeforeJournal
      BY <1>3, StartsUnpaused DEF HNext, LateInv
    <3>3. QED
      BY <1>1, <2>3, <3>1, <3>2 DEF LateInv
  <2>4. QED
    BY <2>1, <2>2, <2>3
<1>4. QED
  BY <1>2, <1>3

(* A batch that has been paused or deleted gets at most the journal its    *)
(* worker was about to write (isPaused, read at the head of the group      *)
(* loop), however often it is paused and resumed.                          *)
THEOREM StopsInTime == HSpec => []StopsAfterTheCurrentJournal
<1>1. HInit => LateInv
  BY TypeInvInit DEF HInit, LateInv, Init, IdleWorker, BeforeJournal
<1>2. LateInv => StopsAfterTheCurrentJournal
  BY DEF LateInv, StopsAfterTheCurrentJournal
<1>3. QED
  BY <1>1, <1>2, LateInvStep, PTL DEF HSpec

-----------------------------------------------------------------------------
(* Who may do what when, as long as requests come one at a time and        *)
(* everything answers.                                                     *)

Untouched == spent.pauses + spent.deletes = 0
LastAttempt == redis.attempts + 1 >= MaxAttempts

(* BullMQ's job is active while the processor runs it, with the number of  *)
(* attempts the processor was given; before the first request there is     *)
(* nothing.                                                                *)
QueueInv ==
  /\ boot = "done"
  /\ worker.pc # "idle" <=> redis.state = "active"
  /\ worker.pc # "idle" => redis.attempts = worker.attempt
  /\ worker.pc = "cancel" => LastAttempt
  /\ spent.deletes = 0 => batch.exists
  /\ spent.submits = 0 =>
       /\ job.status = "none" /\ worker.pc = "idle" /\ redis.state = "absent"
       /\ batch.status = "PendingPosting" /\ fo = <<>>
       /\ \A s \in Submitters : subs[s] = "idle"

(* A request is alone, and finds no processor, or one that has given up.   *)
Storing == {"storePrepare", "deleteGroups", "insertGroups", "upsertJob", "add"}
Requeueing == {"requeueCheck", "requeueAdd"}

AskInv ==
  /\ \A s, t \in Submitters : subs[s] # "idle" /\ subs[t] # "idle" => s = t
  /\ \A s \in Submitters :
       /\ subs[s] # "idle" =>
            /\ subs[s] # "markPosted"
            /\ worker.pc = "idle" \/ (worker.pc = "throw" /\ LastAttempt)
            /\ redis.state \in {"absent", "failed", "active"}
            /\ job.status # "paused" /\ ctl \notin Requeueing
            /\ batch.status # "Posted"
       /\ subs[s] = "remove" => redis.state = "failed"
       /\ subs[s] \in Storing => redis.state = "absent"

(* A paused job is not on the queue, but for the moment between putting it *)
(* there and marking it queued.                                            *)
HeldInv ==
  /\ job.status = "paused" =>
       /\ worker.pc \in {"idle", "start", "return"}
       /\ batch.status # "Posted" /\ redis.state # "delayed"
       /\ (redis.state = "waiting" \/ worker.pc = "start") => ctl = "markQueued"
  /\ ctl \in Requeueing => job.status = "paused"
  /\ ctl = "requeueAdd" => worker.pc = "idle"

(* What the status of the batch tells about the run.                       *)
Underway ==
  \/ worker.pc \notin {"idle", "throw", "finish", "return"}
  \/ worker.pc = "throw" /\ ~LastAttempt
  \/ redis.state \in {"waiting", "delayed"}
  \/ \E s \in Submitters : subs[s] \notin {"idle", "prepare"}

StatusInv ==
  /\ batch.status = "Posted" =>
       /\ worker.pc \in {"idle", "finish", "return"}
       /\ redis.state \in {"active", "completed"}
  /\ Untouched =>
       /\ ~batch.paused /\ batch.exists /\ ctl = "idle"
       /\ job.status # "paused" /\ worker.pc # "stop"
       /\ Underway => batch.status = "Posting"
       /\ batch.status = "Canceled" =>
            \/ worker.pc = "idle" /\ redis.state = "failed"
            \/ worker.pc = "throw" /\ LastAttempt
       /\ batch.status = "PendingPosting" => fo = <<>> /\ redis.state = "absent"

OrderInv == QueueInv /\ AskInv /\ HeldInv /\ StatusInv

-----------------------------------------------------------------------------
(* What is in Finance, and what the groups say about it.                   *)

(* Finance refused to delete it, and the user finds it in dfoIds.          *)
LeftBehind(h) == fo[h].kept /\ (batch.exists => h \in batch.dfoIds)

(* Every line is there, and only once unless Finance refused to delete it. *)
Full(h) ==
  h \in Live /\ (fo[h].lines = "full" \/ (fo[h].lines = "extra" /\ fo[h].kept))

Purged == groups = NoGroups /\ spent.deletes > 0
SnapDone(g) == worker.snap[g].status = "completed"

Going == {"check", "stop", "markGroup", "open", "record", "lines", "complete",
          "count", "settle", "posted"}
AtGroup == {"markGroup", "open", "record", "lines", "complete", "count"}
AfterGroup == {"check", "stop", "count", "settle", "posted"}
InRun == Going \cup {"caught", "rollback", "keepIds", "reset"}

(* The groups of the loop that have been posted, by an earlier run or by   *)
(* this one.                                                               *)
Handled(g) ==
  g < worker.at \/ (g = worker.at /\ worker.pc \in AfterGroup \cup {"complete"})

(* The journals of the run: whatever was there before it is complete or    *)
(* left behind, and it has posted what its loop has passed.                *)
SnapInv ==
  /\ \A g \in Groups : SnapDone(g) => Full(worker.snap[g].header)
  /\ \A h \in Created : ~SnapDone(GroupOf(h))
  /\ \A g \in Groups : ~SnapDone(g) /\ worker.snap[g].header # NoHeader
       => LeftBehind(worker.snap[g].header)
  /\ Untouched => \A g \in Groups : ~SnapDone(g)
  /\ \A h \in Live :
       \/ LeftBehind(h) \/ h \in Created
       \/ worker.pc = "record" /\ h = worker.key
       \/ \E g \in Groups : SnapDone(g) /\ h = worker.snap[g].header
  /\ \A h \in worker.failed : h \in Created /\ fo[h].kept
  /\ worker.pc = "reset" => \A h \in worker.failed : LeftBehind(h)

LoopInv ==
  /\ \A h \in Created : Handled(GroupOf(h)) => Full(h)
  /\ \A g \in Groups : Handled(g) => SnapDone(g) \/ \E h \in Created : GroupOf(h) = g
  /\ worker.pc \in AtGroup => ~SnapDone(worker.at)
  /\ worker.pc = "record" => fo[worker.key].lines = "none"
  /\ worker.pc = "lines" =>
       /\ worker.key \in Created /\ GroupOf(worker.key) = worker.at
       /\ fo[worker.key].lines = "none" \/ fo[worker.key].kept
  /\ worker.pc \in {"settle", "posted"} => \A g \in Groups : g > worker.at => SnapDone(g)
  /\ worker.pc = "posted" => (batch.exists => Live \subseteq batch.dfoIds)

(* The groups of a run, unless a deletion has purged them.                 *)
DoneInv ==
  /\ Present
  /\ \A g \in Groups : SnapDone(g) => groups[g] = worker.snap[g]
  /\ \A g \in Groups :
       groups[g].status = "completed" => SnapDone(g) \/ groups[g].header \in Created
  /\ \A g \in Groups : groups[g].header # NoHeader =>
       groups[g].header \in Created \/ SnapDone(g) \/ LeftBehind(groups[g].header)

MarkInv ==
  /\ \A h \in Created :
       /\ groups[GroupOf(h)].header = h
       /\ GroupOf(h) < worker.at \/ worker.pc \in AfterGroup
            => groups[GroupOf(h)].status = "completed"
  /\ \A g \in Groups : g > worker.at => groups[g].header = worker.snap[g].header
  /\ worker.pc \in {"markGroup", "open"} =>
       groups[worker.at].header = worker.snap[worker.at].header

(* Between two runs the groups tell which journals are complete, and every *)
(* other one was left behind.                                              *)
RestInv ==
  /\ \A h \in Live :
       \/ LeftBehind(h) \/ Purged
       \/ \E g \in Groups : groups[g].status = "completed" /\ groups[g].header = h
  /\ \A g \in Groups :
       /\ groups[g].status = "completed" => Full(groups[g].header)
       /\ groups[g].status # "completed" /\ groups[g].header # NoHeader
            => LeftBehind(groups[g].header)
  /\ Untouched => CompletedGroups = {}

AskedInv ==
  \A s \in Submitters :
    /\ subs[s] # "idle" => \A h \in Live : LeftBehind(h)
    /\ subs[s] = "insertGroups" => groups = NoGroups
    /\ subs[s] = "upsertJob" => CompletedGroups = {}

DataInv ==
  /\ groups = NoGroups \/ Present
  /\ worker.pc \in {"start", "list"} =>
       worker.created = <<>> /\ worker.failed = {} /\ worker.at = 0
  /\ AskedInv
  /\ worker.pc \in InRun => SnapInv /\ (Purged \/ DoneInv)
  /\ worker.pc \in Going => LoopInv /\ (Purged \/ MarkInv)
  /\ worker.pc \notin InRun /\ batch.status # "Posted" => RestInv
  /\ batch.status = "Posted" => PostedIsComplete /\ PostedOnce /\ PostedIsKnown

CountInv ==
  /\ job.status = "none" =>
       /\ job.completed = 0
       /\ groups = NoGroups \/ \E s \in Submitters : subs[s] = "upsertJob"
  /\ \A s \in Submitters : subs[s] = "upsertJob" => CompletedGroups = {}
  /\ worker.pc = "count" =>
       job.completed + 1 = Cardinality(CompletedGroups) \/ job.status = "none"
  /\ (\A s \in Submitters : subs[s] \notin {"insertGroups", "upsertJob"}) /\ worker.pc # "count"
       => job.completed = Cardinality(CompletedGroups)
-----------------------------------------------------------------------------
(* Who is ordered has been so far: nothing has failed, and a new request   *)
(* is the first or finds a batch nobody has touched.                       *)
LEMMA OrderedBefore ==
  ASSUME TypeInv, Next, Ordered'
  PROVE  /\ Ordered /\ (Untouched' => Untouched)
         /\ ~StoreFault /\ ~Crash /\ ~CreateHeaderUnanswered /\ ~PostLinesRepeated
         /\ spent.deletes <= spent'.deletes
         /\ \/ spent'.submits = spent.submits
            \/ /\ spent'.submits = spent.submits + 1 /\ spent'.deletes = spent.deletes
               /\ spent.submits = 0 \/ (Untouched /\ \A s, t \in Submitters : s = t)
<1>0. spent \in [submits : Nat, pauses : Nat, deletes : Nat, faults : Nat, crashes : Nat]
  BY DEF TypeInv, TypeOK, RequestsOK
<1>1. /\ spent' \in [submits : Nat, pauses : Nat, deletes : Nat, faults : Nat, crashes : Nat]
      /\ spent'.faults + spent'.crashes = 0
  BY TypeInvStep DEF Ordered, TypeInv, TypeOK, RequestsOK
<1>2. ~Spend("faults", MaxFaults) /\ ~Spend("crashes", MaxCrashes)
  BY <1>0, <1>1 DEF Spend
<1>3. ~StoreFault /\ ~Crash /\ ~CreateHeaderUnanswered /\ ~PostLinesRepeated
  BY <1>2 DEF StoreFault, Crash, CreateHeaderUnanswered, PostLinesRepeated
<1>4. CASE UNCHANGED spent
  BY <1>0, <1>3, <1>4 DEF Ordered, Untouched
<1>5. CASE Spend("submits", MaxSubmits)
  <2>1. /\ spent'.submits = spent.submits + 1 /\ spent'.pauses = spent.pauses
        /\ spent'.deletes = spent.deletes /\ spent'.faults = spent.faults
        /\ spent'.crashes = spent.crashes
    BY <1>0, <1>5 DEF Spend
  <2>2. QED
    BY <1>0, <1>3, <2>1 DEF Ordered, Untouched
<1>6. CASE Spend("pauses", MaxPauses) \/ Spend("deletes", MaxDeletes)
  <2>1. /\ spent'.submits = spent.submits /\ spent'.faults = spent.faults
        /\ spent'.crashes = spent.crashes /\ spent'.deletes >= spent.deletes
        /\ spent'.pauses + spent'.deletes = spent.pauses + spent.deletes + 1
    BY <1>0, <1>6 DEF Spend
  <2>2. QED
    BY <1>0, <1>1, <1>3, <2>1 DEF Ordered, Untouched
<1>7. QED
  BY <1>2, <1>4, <1>5, <1>6, SpendStep

LEMMA OrderInvInit == Init => OrderInv
<1> SUFFICES ASSUME Init PROVE OrderInv
  OBVIOUS
<1>1. worker.pc = "idle" /\ redis.state = "absent"
  BY DEF Init, IdleWorker, NoRedisJob
<1>2. QED
  BY <1>1 DEF Init, OrderInv, QueueInv, AskInv, HeldInv, StatusInv, Underway,
     Untouched, Requeueing, Storing

(* A request.                                                              *)
LEMMA AskOrder ==
  ASSUME TypeInv, OrderInv, Next, Ordered', NEW r \in Submitters, Submit(r)
  PROVE  OrderInv'
<1>0. /\ spent \in [submits : Nat, pauses : Nat, deletes : Nat, faults : Nat, crashes : Nat]
      /\ batch \in [exists : BOOLEAN, status : BatchStatus, paused : BOOLEAN,
                    dfoIds : SUBSET HeaderIds]
      /\ redis \in [state : RedisState, attempts : Nat, stalled : Nat]
      /\ job \in [status : JobStatus, completed : Nat]
      /\ subs \in [Submitters -> SubPc]
  BY DEF TypeInv, TypeOK, RequestsOK, BatchOK, RedisOK, JobOK
<1>1. UNCHANGED <<fo, worker, ctl, boot>>
  BY DEF Submit, SubmitValidate, SubmitPrepare, SubmitLookup,
     SubmitMarkPosted, SubmitRemoveFailed, SubmitStorePrepare,
     ReplaceDeleteGroups, ReplaceInsertGroups, ReplaceUpsertJob, SubmitAdd
(* The request goes on to p.                                               *)
<1>2. ASSUME NEW p \in SubPc, SubGoto(r, p)
      PROVE  /\ subs'[r] = p
             /\ \A s \in Submitters : s # r => subs'[s] = subs[s]
  BY <1>0, <1>2 DEF SubGoto
<1>3. CASE SubmitValidate(r)
  <2>1. /\ subs[r] = "idle" /\ subs'[r] = "prepare"
        /\ \A s \in Submitters : s # r => subs'[s] = subs[s]
        /\ batch.exists /\ batch.status \notin {"Posting", "Posted"}
        /\ UNCHANGED <<batch, job, redis>>
    BY <1>2, <1>3 DEF SubmitValidate, SubPc
  <2>2. /\ spent'.submits = spent.submits + 1
        /\ spent'.deletes = spent.deletes /\ spent'.pauses = spent.pauses
    BY <1>0, <1>3 DEF SubmitValidate, Spend
  <2>3. \A s \in Submitters : subs[s] = "idle"
    BY <1>0, <2>1, <2>2, OrderedBefore DEF OrderInv, QueueInv
  <2>4. /\ worker.pc = "idle" \/ (worker.pc = "throw" /\ LastAttempt)
        /\ redis.state \in {"absent", "failed", "active"}
        /\ job.status # "paused" /\ ctl \notin Requeueing
    <3>1. CASE spent.submits = 0
      BY <2>3, <3>1 DEF OrderInv, QueueInv, HeldInv
    <3>2. CASE Untouched
      <4>1. batch.status \in {"PendingPosting", "Canceled"}
        BY <1>0, <2>1 DEF BatchStatus
      <4>2. QED
        BY <2>1, <3>2, <4>1 DEF OrderInv, QueueInv, StatusInv, Requeueing
    <3>3. QED
      BY <1>0, <2>2, <3>1, <3>2, OrderedBefore
  <2>5. QED
    BY <1>0, <1>1, <2>1, <2>2, <2>3, <2>4 DEF OrderInv, QueueInv, AskInv, HeldInv, StatusInv,
       Underway, Untouched, Requeueing, Storing, LastAttempt
<1>4. CASE ~SubmitValidate(r)
  <2>0. UNCHANGED spent /\ subs[r] # "idle"
    BY <1>4 DEF Submit, SubmitPrepare, SubmitLookup,
     SubmitMarkPosted, SubmitRemoveFailed, SubmitStorePrepare,
     ReplaceDeleteGroups, ReplaceInsertGroups, ReplaceUpsertJob, SubmitAdd
  <2>1. \A s \in Submitters : s # r => subs[s] = "idle"
    BY <2>0 DEF OrderInv, AskInv
  <2>2. /\ subs[r] # "markPosted"
        /\ worker.pc = "idle" \/ (worker.pc = "throw" /\ LastAttempt)
        /\ redis.state \in {"absent", "failed", "active"}
        /\ job.status # "paused" /\ ctl \notin Requeueing
        /\ batch.status # "Posted"
        /\ subs[r] = "remove" => redis.state = "failed"
        /\ subs[r] \in Storing => redis.state = "absent"
        /\ spent.submits # 0
    BY <2>0 DEF OrderInv, AskInv, QueueInv
  <2>3. /\ batch'.exists = batch.exists /\ batch'.paused = batch.paused
        /\ batch'.status = batch.status
             \/ (subs[r] = "prepare" /\ batch.exists /\ batch'.status = "Posting")
        /\ Untouched /\ subs[r] = "prepare" => batch'.status = "Posting"
    <3>1. CASE SubmitPrepare(r)
      BY <1>0, <3>1 DEF SubmitPrepare, SetBatchStatus, OrderInv, StatusInv
    <3>2. CASE ~SubmitPrepare(r)
      <4>1. UNCHANGED batch /\ subs[r] # "prepare"
        BY <1>4, <2>2, <3>2 DEF Submit, SubmitLookup,
         SubmitMarkPosted, SubmitRemoveFailed, SubmitStorePrepare,
         ReplaceDeleteGroups, ReplaceInsertGroups, ReplaceUpsertJob, SubmitAdd
      <4>2. QED
        BY <4>1
    <3>3. QED
      BY <3>1, <3>2
  <2>4. /\ UNCHANGED job \/ job'.status = "queued"
    BY <1>4 DEF Submit, SubmitPrepare, SubmitLookup,
     SubmitMarkPosted, SubmitRemoveFailed, SubmitStorePrepare,
     ReplaceDeleteGroups, ReplaceInsertGroups, ReplaceUpsertJob, SubmitAdd
  <2>5. /\ \A s \in Submitters : s # r => subs'[s] = "idle"
        /\ \/ /\ UNCHANGED redis
              /\ \/ subs'[r] \in {"idle", "lookup"}
                 \/ redis.state = "failed" /\ subs'[r] = "remove"
                 \/ redis.state = "absent" /\ subs'[r] \in Storing
           \/ redis' = NoRedisJob /\ redis.state = "failed" /\ subs'[r] = "deleteGroups"
           \/ redis' = NewRedisJob /\ redis.state = "absent" /\ subs'[r] = "idle"
              /\ subs[r] = "add"
    <3>1. CASE SubmitPrepare(r)
      BY <1>2, <2>1, <3>1 DEF SubmitPrepare, SubPc
    <3>2. CASE SubmitLookup(r)
      <4>1. PICK p \in {"storePrepare", "remove", "markPosted", "idle"} :
              /\ SubGoto(r, p)
              /\ p = "storePrepare" => redis.state = "absent"
              /\ p = "remove" => redis.state = "failed"
              /\ p = "markPosted" => redis.state = "completed"
        BY <3>2 DEF SubmitLookup
      <4>2. QED
        BY <1>2, <2>1, <2>2, <3>2, <4>1 DEF SubmitLookup, SubPc, Storing
    <3>3. CASE SubmitRemoveFailed(r)
      <4>1. redis.state = "failed"
        BY <2>2, <3>3 DEF SubmitRemoveFailed
      <4>2. QED
        BY <1>2, <2>1, <3>3, <4>1 DEF SubmitRemoveFailed, SubPc
    <3>4. CASE \/ SubmitStorePrepare(r) \/ ReplaceDeleteGroups(r)
               \/ ReplaceInsertGroups(r) \/ ReplaceUpsertJob(r)
      <4>1. PICK p \in Storing \cup {"idle"} : SubGoto(r, p)
        BY <3>4 DEF SubmitStorePrepare, ReplaceDeleteGroups, ReplaceInsertGroups,
           ReplaceUpsertJob, Storing
      <4>2. redis.state = "absent" /\ UNCHANGED redis
        BY <2>2, <3>4 DEF SubmitStorePrepare, ReplaceDeleteGroups, ReplaceInsertGroups,
           ReplaceUpsertJob, Storing
      <4>3. QED
        BY <1>2, <2>1, <4>1, <4>2 DEF SubPc, Storing
    <3>5. CASE SubmitAdd(r)
      <4>1. redis.state = "absent" /\ redis' = NewRedisJob
        BY <2>2, <3>5 DEF SubmitAdd, Storing
      <4>2. QED
        BY <1>2, <2>1, <3>5, <4>1 DEF SubmitAdd, SubPc
    <3>6. QED
      BY <1>4, <2>2, <3>1, <3>2, <3>3, <3>4, <3>5 DEF Submit, SubmitMarkPosted
  <2>6. Untouched => batch'.status = "Posting"
    BY <2>0, <2>3 DEF OrderInv, StatusInv, Underway
  <2>7. redis'.state \in {"absent", "failed", "active", "waiting"}
        /\ (redis'.state = "waiting" => subs'[r] = "idle" /\ worker.pc = "idle" /\ redis.state = "absent")
        /\ (redis'.state # "waiting" => redis' = redis \/ (redis' = NoRedisJob /\ redis.state = "failed"))
    BY <2>2, <2>5 DEF NoRedisJob, NewRedisJob, OrderInv, QueueInv
  <2>8. QueueInv'
    BY <1>1, <2>0, <2>2, <2>3, <2>7 DEF OrderInv, QueueInv, NoRedisJob, LastAttempt
  <2>9. AskInv'
    BY <1>1, <2>0, <2>1, <2>2, <2>3, <2>4, <2>5 DEF OrderInv, QueueInv, AskInv, NoRedisJob,
       NewRedisJob, LastAttempt, Storing, Requeueing
  <2>10. HeldInv'
    BY <1>1, <2>2, <2>4 DEF OrderInv, HeldInv, Requeueing
  <2>11. StatusInv'
    <3>1. batch'.status # "Posted"
      BY <2>2, <2>3
    <3>2. (Untouched)' <=> Untouched
      BY <2>0 DEF Untouched
    <3>3. job'.status # "paused"
      BY <2>2, <2>4
    <3>4. QED
      BY <1>1, <2>3, <2>6, <3>1, <3>2, <3>3 DEF OrderInv, StatusInv
  <2>12. QED
    BY <2>8, <2>9, <2>10, <2>11 DEF OrderInv
<1>5. QED
  BY <1>3, <1>4

(* Who pauses, resumes or deletes has touched the batch.                   *)
LEMMA ControlTouches ==
  ASSUME TypeInv, OrderInv, Control
  PROVE  ~Untouched' /\ spent'.submits = spent.submits
<1>0. spent \in [submits : Nat, pauses : Nat, deletes : Nat, faults : Nat, crashes : Nat]
  BY DEF TypeInv, TypeOK, RequestsOK
<1>1. CASE Spend("pauses", MaxPauses) \/ Spend("deletes", MaxDeletes)
  BY <1>0, <1>1 DEF Spend, Untouched
<1>2. CASE ~Spend("pauses", MaxPauses) /\ ~Spend("deletes", MaxDeletes)
  <2>1. UNCHANGED spent /\ (ctl # "idle" \/ batch.paused)
    BY <1>2 DEF Control, PauseRead, PauseSet, ResumeRead, ResumeClear,
       ResumeFindJob, RequeueCheck, RequeueAdd, MarkQueued, DeleteRead,
       DeletePause, DeleteRedisJob, DeletePurge, DeleteBatch
  <2>2. QED
    BY <2>1 DEF OrderInv, StatusInv, Untouched
<1>3. QED
  BY <1>1, <1>2

LEMMA ControlOrder ==
  ASSUME TypeInv, DeletesCounted, OrderInv, Next, Ordered', Control
  PROVE  OrderInv'
<1>0. /\ spent \in [submits : Nat, pauses : Nat, deletes : Nat, faults : Nat, crashes : Nat]
      /\ spent' \in [submits : Nat, pauses : Nat, deletes : Nat, faults : Nat, crashes : Nat]
      /\ batch \in [exists : BOOLEAN, status : BatchStatus, paused : BOOLEAN,
                    dfoIds : SUBSET HeaderIds]
      /\ redis \in [state : RedisState, attempts : Nat, stalled : Nat]
      /\ job \in [status : JobStatus, completed : Nat]
  BY TypeInvStep DEF TypeInv, TypeOK, RequestsOK, BatchOK, RedisOK, JobOK
<1>1. UNCHANGED <<fo, worker, subs, boot>>
  BY DEF Control, PauseRead, PauseSet, ResumeRead, ResumeClear,
     ResumeFindJob, RequeueCheck, RequeueAdd, MarkQueued, DeleteRead,
     DeletePause, DeleteRedisJob, DeletePurge, DeleteBatch
<1>2. ~Untouched' /\ spent'.submits = spent.submits /\ spent.deletes <= spent'.deletes
  BY ControlTouches, OrderedBefore
<1>3. /\ batch'.status = batch.status
      /\ batch'.exists = batch.exists \/ (batch.exists /\ spent'.deletes > 0)
  <2>1. CASE DeleteBatch
    BY <1>0, <2>1 DEF DeleteBatch, DeletesCounted
  <2>2. CASE ~DeleteBatch
    BY <1>0, <2>2 DEF Control, PauseRead, PauseSet, ResumeRead, ResumeClear,
     ResumeFindJob, RequeueCheck, RequeueAdd, MarkQueued, DeleteRead,
     DeletePause, DeleteRedisJob, DeletePurge, SetBatchPaused
  <2>3. QED
    BY <2>1, <2>2
<1>4. spent'.deletes = 0 => batch'.exists
  BY <1>0, <1>2, <1>3 DEF OrderInv, QueueInv
(* Steps that leave the job and the queue alone.                           *)
<1>5. ASSUME UNCHANGED <<job, redis>>, ctl' \in Requeueing => job.status = "paused",
             ctl' = "requeueAdd" => ctl = "requeueAdd", ctl # "markQueued"
      PROVE  OrderInv'
  <2>1. QueueInv'
    BY <1>1, <1>2, <1>3, <1>4, <1>5 DEF OrderInv, QueueInv, LastAttempt
  <2>2. AskInv'
    BY <1>1, <1>3, <1>5 DEF OrderInv, AskInv, LastAttempt
  <2>3. HeldInv'
    BY <1>1, <1>3, <1>5 DEF OrderInv, HeldInv
  <2>4. StatusInv'
    BY <1>1, <1>2, <1>3, <1>5 DEF OrderInv, StatusInv
  <2>5. QED
    BY <2>1, <2>2, <2>3, <2>4 DEF OrderInv
<1>6. CASE \/ PauseRead \/ PauseSet \/ ResumeRead \/ ResumeClear \/ ResumeFindJob
           \/ DeleteRead \/ DeletePause \/ DeleteBatch
  <2>1. /\ UNCHANGED <<job, redis>> /\ ctl # "markQueued"
        /\ ctl' \notin Requeueing
             \/ (ctl' = "requeueCheck" /\ job.status = "paused")
    BY <1>6 DEF PauseRead, PauseSet, ResumeRead, ResumeClear, ResumeFindJob,
       DeleteRead, DeletePause, DeleteBatch, Requeueing
  <2>2. QED
    BY <1>5, <2>1 DEF Requeueing
<1>7. CASE RequeueCheck
  <2>1. CASE redis.state \in Running
    <3>1. UNCHANGED <<job, redis>> /\ ctl # "markQueued" /\ ctl' = "idle"
      BY <1>7, <2>1 DEF RequeueCheck
    <3>2. QED
      BY <1>5, <3>1 DEF Requeueing
  <2>2. CASE redis.state \notin Running
    <3>1. /\ ctl = "requeueCheck" /\ redis'.state = "absent" /\ ctl' = "requeueAdd"
          /\ UNCHANGED <<job, batch>> /\ job.status = "paused"
      BY <1>7, <2>2 DEF RequeueCheck, NoRedisJob, OrderInv, HeldInv, Requeueing
    <3>2. /\ worker.pc = "idle" /\ \A s \in Submitters : subs[s] = "idle"
          /\ batch.status # "Posted"
      BY <2>2, <3>1 DEF OrderInv, QueueInv, AskInv, HeldInv, Running, Requeueing
    <3>3. QED
      BY <1>1, <1>2, <1>4, <3>1, <3>2 DEF OrderInv, QueueInv, AskInv, HeldInv, StatusInv
  <2>3. QED
    BY <2>1, <2>2
<1>8. CASE RequeueAdd
  <2>1. /\ ctl = "requeueAdd" /\ ctl' = "markQueued" /\ UNCHANGED <<job, batch>>
        /\ job.status = "paused" /\ worker.pc = "idle"
        /\ redis'.state \in {"waiting", redis.state}
        /\ \A s \in Submitters : subs[s] = "idle"
        /\ redis.state \notin {"active", "delayed"} /\ batch.status # "Posted"
    BY <1>8 DEF RequeueAdd, NewRedisJob, OrderInv, QueueInv, AskInv, HeldInv, Requeueing
  <2>2. AskInv'
    BY <1>1, <1>2, <2>1 DEF OrderInv, AskInv, Storing
  <2>5. spent'.submits # 0
    BY <1>2, <2>1 DEF OrderInv, QueueInv
  <2>6. QueueInv'
    BY <1>1, <1>4, <2>1, <2>5 DEF OrderInv, QueueInv
  <2>3. HeldInv' /\ StatusInv'
    BY <1>1, <1>2, <2>1 DEF OrderInv, HeldInv, StatusInv, Requeueing
  <2>4. QED
    BY <2>2, <2>3, <2>6 DEF OrderInv
<1>9. CASE MarkQueued
  <2>1. /\ UNCHANGED <<redis, batch>> /\ ctl' = "idle"
        /\ job'.status \in {"none", "queued"}
        /\ job.status = "none" => job'.status = "none"
    BY <1>0, <1>9 DEF MarkQueued, SetJobStatus
  <2>2. QED
    BY <1>1, <1>2, <1>4, <2>1 DEF OrderInv, QueueInv, AskInv, HeldInv, StatusInv, Requeueing,
       LastAttempt
<1>10. CASE DeleteRedisJob
  <2>1. /\ UNCHANGED <<job, batch>> /\ ctl' = "deletePurge" /\ ctl # "markQueued"
        /\ UNCHANGED redis \/ (redis.state \in {"waiting", "delayed"} /\ redis'.state = "absent")
    BY <1>10 DEF DeleteRedisJob, NoRedisJob
  <2>2. CASE UNCHANGED redis
    BY <1>5, <2>1, <2>2 DEF Requeueing
  <2>3. CASE redis.state \in {"waiting", "delayed"} /\ redis'.state = "absent"
    <3>1. worker.pc = "idle" /\ batch.status # "Posted" /\ \A s \in Submitters : subs[s] = "idle"
      BY <2>3 DEF OrderInv, QueueInv, AskInv, StatusInv
    <3>2. QED
      BY <1>1, <1>2, <1>4, <2>1, <2>3, <3>1 DEF OrderInv, QueueInv, AskInv, HeldInv, StatusInv,
        Requeueing
  <2>4. QED
    BY <2>1, <2>2, <2>3
<1>11. CASE DeletePurge
  <2>1. /\ UNCHANGED <<redis, batch>> /\ ctl' = "deleteBatch" /\ job'.status = "none"
    BY <1>11 DEF DeletePurge
  <2>2. QED
    BY <1>1, <1>2, <1>4, <2>1 DEF OrderInv, QueueInv, AskInv, HeldInv, StatusInv, Requeueing,
       LastAttempt
<1>12. QED
  BY <1>6, <1>7, <1>8, <1>9, <1>10, <1>11 DEF Control

(* BullMQ and the boot code.                                               *)
LEMMA BullOrder ==
  ASSUME TypeInv, OrderInv, Next, Ordered',
         PickUp \/ PromoteDelayed \/ Stalled \/ Boot
  PROVE  OrderInv' /\ ~Stalled /\ ~Boot
<1>0. /\ worker \in Workers /\ redis \in [state : RedisState, attempts : Nat, stalled : Nat]
      /\ spent \in [submits : Nat, pauses : Nat, deletes : Nat, faults : Nat, crashes : Nat]
  BY DEF TypeInv, TypeOK, WorkerOK, RedisOK, RequestsOK
<1>1. ~Stalled /\ ~Boot
  BY DEF OrderInv, QueueInv, Stalled, Boot, ReleaseRead, ForceRemove, Restore
<1>2. /\ UNCHANGED <<batch, job, fo, subs, ctl, boot, spent>>
      /\ redis.state \in {"waiting", "delayed"} /\ worker.pc = "idle"
  BY <1>1 DEF PickUp, PromoteDelayed, OrderInv, QueueInv
<1>3. /\ \A s \in Submitters : subs[s] = "idle" /\ subs'[s] = "idle"
      /\ batch.status # "Posted" /\ spent.submits # 0
      /\ Untouched => batch.status = "Posting"
  BY <1>2 DEF OrderInv, AskInv, StatusInv, QueueInv, Underway
<1>4. CASE PickUp
  <2>1. /\ redis.state = "waiting" /\ redis'.state = "active" /\ redis'.attempts = redis.attempts
        /\ worker'.pc = "start" /\ worker'.attempt = redis.attempts
    BY <1>0, <1>4, IdleWorkerType DEF PickUp, Workers
  <2>2. QED
    BY <1>1, <1>2, <1>3, <2>1 DEF OrderInv, QueueInv, AskInv, HeldInv, StatusInv, Untouched,
       Requeueing
<1>5. CASE PromoteDelayed
  <2>1. /\ redis.state = "delayed" /\ redis'.state = "waiting" /\ UNCHANGED worker
    BY <1>0, <1>5 DEF PromoteDelayed
  <2>2. QED
    BY <1>1, <1>2, <1>3, <2>1 DEF OrderInv, QueueInv, AskInv, HeldInv, StatusInv, Untouched,
       Requeueing
<1>6. QED
  BY <1>1, <1>4, <1>5

(* The processor.                                                          *)
Runs == Processor \/ PostGroup \/ RollBack \/ Settle

LEMMA RunsFrame ==
  ASSUME TypeInv, OrderInv, Next, Ordered', Runs
  PROVE  /\ UNCHANGED <<subs, ctl, boot, spent>>
         /\ worker.pc # "idle" /\ redis.state = "active" /\ redis.attempts = worker.attempt
         /\ spent.submits # 0
         /\ worker.pc # "throw" => \A s \in Submitters : subs[s] = "idle"
         /\ batch'.exists = batch.exists /\ batch'.paused = batch.paused
         /\ worker.pc \notin {"return", "throw"} =>
              /\ UNCHANGED redis /\ worker'.attempt = worker.attempt
              /\ worker' # IdleWorker
<1>0. /\ batch \in [exists : BOOLEAN, status : BatchStatus, paused : BOOLEAN,
                    dfoIds : SUBSET HeaderIds]
      /\ worker \in Workers
  BY DEF TypeInv, TypeOK, BatchOK, WorkerOK
<1>1. UNCHANGED <<subs, ctl, boot>> /\ worker.pc # "idle"
  <2>1. UNCHANGED <<subs, ctl>> /\ worker.pc # "idle"
    BY GroupsStay DEF Runs
  <2>2. UNCHANGED boot
    BY DEF Runs, Processor, MarkActive, ListGroups, CheckPause, RecordWorkerStopped,
     MarkGroupActive, CompleteGroup, CountGroup, MarkCompleted, FailJob,
     CancelBatch, Return, Throw, PostGroup, ReuseHeader, CreateHeader,
     CreateHeaderRejected, CreateHeaderUnanswered, SetCreatedHeader, PostLines,
     PostLinesRepeated, PostLinesRejected, RollBack, StartRollback,
     RollbackLines, RollbackHeader, RetainHeader, RollbackDone,
     KeepRetainedIds, ResetGroups, Settle, StoreCreatedHeaderIds, SetPosted
  <2>3. QED
    BY <2>1, <2>2
<1>2. UNCHANGED spent
  <2>1. ~CreateHeaderUnanswered /\ ~PostLinesRepeated
    BY OrderedBefore
  <2>2. QED
    BY <2>1 DEF Runs, Processor, MarkActive, ListGroups, CheckPause, RecordWorkerStopped,
     MarkGroupActive, CompleteGroup, CountGroup, MarkCompleted, FailJob,
     CancelBatch, Return, Throw, PostGroup, ReuseHeader, CreateHeader,
     CreateHeaderRejected, SetCreatedHeader, PostLines,
     PostLinesRejected, RollBack, StartRollback,
     RollbackLines, RollbackHeader, RetainHeader, RollbackDone,
     KeepRetainedIds, ResetGroups, Settle, StoreCreatedHeaderIds, SetPosted
<1>3. batch'.exists = batch.exists /\ batch'.paused = batch.paused
  <2>1. CASE CancelBatch \/ SetPosted \/ KeepRetainedIds \/ StoreCreatedHeaderIds
    BY <1>0, <2>1 DEF CancelBatch, SetPosted, KeepRetainedIds, StoreCreatedHeaderIds,
       SetBatchStatus, AddDfoIds
  <2>2. CASE ~(CancelBatch \/ SetPosted \/ KeepRetainedIds \/ StoreCreatedHeaderIds)
    BY <2>2 DEF Runs, Processor, MarkActive, ListGroups, CheckPause, RecordWorkerStopped,
     MarkGroupActive, CompleteGroup, CountGroup, MarkCompleted, FailJob,
     Return, Throw, PostGroup, ReuseHeader, CreateHeader,
     CreateHeaderRejected, CreateHeaderUnanswered, SetCreatedHeader, PostLines,
     PostLinesRepeated, PostLinesRejected, RollBack, StartRollback,
     RollbackLines, RollbackHeader, RetainHeader, RollbackDone,
     ResetGroups, Settle
  <2>3. QED
    BY <2>1, <2>2
<1>4. /\ redis.state = "active" /\ redis.attempts = worker.attempt /\ spent.submits # 0
      /\ worker.pc # "throw" => \A s \in Submitters : subs[s] = "idle"
  BY <1>1 DEF OrderInv, QueueInv, AskInv
<1>5. ASSUME worker.pc \notin {"return", "throw"}
      PROVE  /\ UNCHANGED redis /\ worker'.attempt = worker.attempt
             /\ worker' # IdleWorker
  <2>1. UNCHANGED redis
    BY <1>5 DEF Runs, Processor, MarkActive, ListGroups, CheckPause, RecordWorkerStopped,
     MarkGroupActive, CompleteGroup, CountGroup, MarkCompleted, FailJob,
     CancelBatch, Return, Throw, PostGroup, ReuseHeader, CreateHeader,
     CreateHeaderRejected, CreateHeaderUnanswered, SetCreatedHeader, PostLines,
     PostLinesRepeated, PostLinesRejected, RollBack, StartRollback,
     RollbackLines, RollbackHeader, RetainHeader, RollbackDone,
     KeepRetainedIds, ResetGroups, Settle, StoreCreatedHeaderIds, SetPosted
  <2>2. CASE \E p \in WorkerPc \ {"idle"} : Goto(p)
    BY <1>0, <2>1, <2>2 DEF Goto, Workers, IdleWorker
  <2>3. CASE ListGroups \/ CheckPause
    <3>1. CASE ListGroups
      BY <1>0, <2>1, <3>1 DEF ListGroups, Workers, IdleWorker
    <3>2. CASE Goto("settle") \/ Goto("stop")
      BY <1>0, <2>1, <3>2 DEF Goto, Workers, IdleWorker
    <3>3. CASE \E g \in Unposted : worker' = [worker EXCEPT !.pc = "markGroup", !.at = g]
      <4>1. PICK g : worker' = [worker EXCEPT !.pc = "markGroup", !.at = g]
        BY <3>3
      <4>2. worker'.attempt = worker.attempt /\ worker'.pc = "markGroup"
        BY <1>0, <4>1 DEF Workers
      <4>3. QED
        BY <2>1, <4>2 DEF IdleWorker
    <3>4. QED
      BY <2>3, <3>1, <3>2, <3>3 DEF CheckPause
  <2>4. CASE \/ ReuseHeader \/ CreateHeader \/ SetCreatedHeader
             \/ StartRollback \/ RollbackHeader \/ RetainHeader
    <3>1. worker'.attempt = worker.attempt
      BY <1>0, <2>4 DEF ReuseHeader, CreateHeader, SetCreatedHeader, StartRollback,
         RollbackHeader, RetainHeader, Workers
    <3>2. worker'.pc # "idle"
      BY <1>0, <2>4 DEF ReuseHeader, CreateHeader, SetCreatedHeader, StartRollback,
         RollbackHeader, RetainHeader, Workers
    <3>3. QED
      BY <2>1, <3>1, <3>2 DEF IdleWorker
  <2>5. CASE UNCHANGED worker
    BY <1>1, <2>1, <2>5 DEF IdleWorker
  <2>6. ASSUME ~(\/ ListGroups \/ CheckPause \/ ReuseHeader \/ CreateHeader \/ SetCreatedHeader
                 \/ StartRollback \/ RollbackHeader \/ RetainHeader)
        PROVE  UNCHANGED worker \/ \E p \in WorkerPc \ {"idle"} : Goto(p)
    BY <1>5, <2>6 DEF Runs, Processor, MarkActive, RecordWorkerStopped,
     MarkGroupActive, CompleteGroup, CountGroup, MarkCompleted, FailJob,
     CancelBatch, Return, Throw, PostGroup,
     CreateHeaderRejected, CreateHeaderUnanswered, PostLines,
     PostLinesRepeated, PostLinesRejected, RollBack,
     RollbackLines, RollbackDone,
     KeepRetainedIds, ResetGroups, Settle, StoreCreatedHeaderIds, SetPosted, WorkerPc
  <2>7. QED
    BY <2>2, <2>3, <2>4, <2>5, <2>6
<1>6. QED
  BY <1>1, <1>2, <1>3, <1>4, <1>5

(* Where a step of the processor goes when it neither starts nor ends.     *)
Middle == {"list", "check", "markGroup", "open", "record", "lines", "complete", "count",
           "settle", "caught", "rollback", "keepIds", "reset"}

MiddleStep ==
  \/ ListGroups \/ CheckPause \/ MarkGroupActive \/ CompleteGroup \/ CountGroup
  \/ PostGroup \/ RollBack \/ StoreCreatedHeaderIds

LEMMA MiddleRuns ==
  ASSUME TypeInv, MiddleStep
  PROVE  /\ worker.pc \in Middle /\ worker'.pc \in Middle \cup {"stop", "posted", "fail"}
         /\ worker'.pc = "stop" => CheckPause /\ (batch.paused \/ ~batch.exists)
         /\ job'.status = job.status /\ batch'.status = batch.status
<1>0. /\ batch \in [exists : BOOLEAN, status : BatchStatus, paused : BOOLEAN,
                    dfoIds : SUBSET HeaderIds]
      /\ worker \in Workers /\ job \in [status : JobStatus, completed : Nat]
  BY DEF TypeInv, TypeOK, BatchOK, WorkerOK, JobOK
<1>1. job'.status = job.status /\ batch'.status = batch.status
  <2>1. CASE CountGroup \/ ResetGroups
    BY <1>0, <2>1 DEF CountGroup, ResetGroups, resetAfterRollback
  <2>2. CASE KeepRetainedIds \/ StoreCreatedHeaderIds
    BY <1>0, <2>2 DEF KeepRetainedIds, StoreCreatedHeaderIds, AddDfoIds
  <2>3. QED
    BY <2>1, <2>2 DEF MiddleStep, ListGroups, CheckPause, MarkGroupActive, CompleteGroup,
     PostGroup, ReuseHeader, CreateHeader,
     CreateHeaderRejected, CreateHeaderUnanswered, SetCreatedHeader, PostLines,
     PostLinesRepeated, PostLinesRejected, RollBack, StartRollback,
     RollbackLines, RollbackHeader, RetainHeader, RollbackDone
<1>2. worker.pc \in Middle
  BY DEF MiddleStep, ListGroups, CheckPause, MarkGroupActive, CompleteGroup, CountGroup,
   PostGroup, ReuseHeader, CreateHeader,
   CreateHeaderRejected, CreateHeaderUnanswered, SetCreatedHeader, PostLines,
   PostLinesRepeated, PostLinesRejected, RollBack, StartRollback,
   RollbackLines, RollbackHeader, RetainHeader, RollbackDone,
   KeepRetainedIds, ResetGroups, StoreCreatedHeaderIds, Middle
<1>3. /\ worker'.pc \in Middle \cup {"stop", "posted", "fail"}
      /\ worker'.pc = "stop" => CheckPause /\ (batch.paused \/ ~batch.exists)
  <2>1. CASE CheckPause
    <3>1. CASE Goto("settle")
      BY <1>0, <2>1, <3>1 DEF Goto, Workers, Middle
    <3>2. CASE (batch.paused \/ ~batch.exists) /\ Goto("stop")
      BY <1>0, <2>1, <3>2 DEF Goto, Workers, Middle
    <3>3. ASSUME NEW g \in Unposted, worker' = [worker EXCEPT !.pc = "markGroup", !.at = g]
          PROVE  worker'.pc = "markGroup"
      BY <1>0, <3>3 DEF Workers
    <3>4. QED
      BY <2>1, <3>1, <3>2, <3>3 DEF CheckPause, Middle
  <2>2. CASE \E p \in Middle \cup {"posted", "fail"} : Goto(p)
    BY <1>0, <2>2 DEF Goto, Workers, Middle
  <2>3. CASE \/ ListGroups \/ ReuseHeader \/ CreateHeader \/ SetCreatedHeader
             \/ StartRollback \/ RollbackHeader \/ RetainHeader
    <3>1. worker'.pc \in {"check", "fail", "lines", "record", "rollback"}
      BY <1>0, <2>3 DEF ListGroups, ReuseHeader, CreateHeader, SetCreatedHeader,
         StartRollback, RollbackHeader, RetainHeader, Workers
    <3>2. QED
      BY <3>1 DEF Middle
  <2>4. CASE UNCHANGED worker
    BY <1>2, <2>4 DEF Middle
  <2>5. ASSUME ~(\/ CheckPause \/ ListGroups \/ ReuseHeader \/ CreateHeader \/ SetCreatedHeader
                 \/ StartRollback \/ RollbackHeader \/ RetainHeader)
        PROVE  UNCHANGED worker \/ \E p \in Middle \cup {"posted", "fail"} : Goto(p)
    BY <2>5 DEF MiddleStep, MarkGroupActive, CompleteGroup, CountGroup, PostGroup,
     CreateHeaderRejected, CreateHeaderUnanswered, PostLines,
     PostLinesRepeated, PostLinesRejected, RollBack,
     RollbackLines, RollbackDone,
     KeepRetainedIds, ResetGroups, StoreCreatedHeaderIds, Middle
  <2>6. QED
    BY <2>1, <2>2, <2>3, <2>4, <2>5
<1>4. QED
  BY <1>1, <1>2, <1>3

LEMMA RunOrder ==
  ASSUME TypeInv, OrderInv, Next, Ordered', Runs
  PROVE  OrderInv'
<1>0. /\ batch \in [exists : BOOLEAN, status : BatchStatus, paused : BOOLEAN,
                    dfoIds : SUBSET HeaderIds]
      /\ worker \in Workers /\ job \in [status : JobStatus, completed : Nat]
      /\ redis \in [state : RedisState, attempts : Nat, stalled : Nat]
      /\ MaxAttempts \in Nat /\ worker.attempt \in Nat
  BY DurableQueueAssumption DEF TypeInv, TypeOK, BatchOK, WorkerOK, JobOK, RedisOK, Workers,
     DurableQueueAssumption
<1>1. /\ UNCHANGED <<subs, ctl, boot, spent>>
      /\ worker.pc # "idle" /\ redis.state = "active" /\ redis.attempts = worker.attempt
      /\ spent.submits # 0
      /\ worker.pc # "throw" => \A s \in Submitters : subs[s] = "idle"
      /\ batch'.exists = batch.exists /\ batch'.paused = batch.paused
      /\ worker.pc \notin {"return", "throw"} =>
           /\ UNCHANGED redis /\ worker'.attempt = worker.attempt
           /\ worker' # IdleWorker
  BY RunsFrame
<1>2. (Untouched)' <=> Untouched
  BY <1>1 DEF Untouched
<1>3. CASE MiddleStep
  <2>1. /\ worker.pc \in Middle /\ worker'.pc \in Middle \cup {"stop", "posted", "fail"}
        /\ worker'.pc = "stop" => CheckPause /\ (batch.paused \/ ~batch.exists)
        /\ job'.status = job.status /\ batch'.status = batch.status
    BY <1>3, MiddleRuns
  <2>2. /\ job.status # "paused" /\ batch.status # "Posted"
        /\ Untouched => batch.status = "Posting" /\ worker'.pc # "stop"
    BY <2>1 DEF OrderInv, HeldInv, StatusInv, Middle, Underway
  <2>3. QueueInv'
    BY <1>1, <2>1 DEF OrderInv, QueueInv, Middle
  <2>4. AskInv'
    BY <1>1, <2>1 DEF OrderInv, AskInv, Middle, Storing
  <2>5. HeldInv'
    BY <1>1, <2>1, <2>2 DEF OrderInv, HeldInv, Middle, Requeueing
  <2>6. StatusInv'
    BY <1>1, <1>2, <2>1, <2>2 DEF OrderInv, StatusInv
  <2>7. QED
    BY <2>3, <2>4, <2>5, <2>6 DEF OrderInv
(* The steps that begin and end a run.                                     *)
<1>4. CASE MarkActive \/ MarkCompleted \/ FailJob \/ RecordWorkerStopped
  <2>1. /\ batch'.status = batch.status /\ UNCHANGED fo
        /\ worker.pc \in {"start", "finish", "fail", "stop"}
    BY <1>4 DEF MarkActive, MarkCompleted, FailJob, RecordWorkerStopped
  <2>2. /\ worker.pc = "start" => worker'.pc = "list" /\ job'.status \in {"none", "active"}
        /\ worker.pc = "finish" => worker'.pc = "return" /\ job'.status \in {"none", "completed"}
        /\ worker.pc = "stop" => worker'.pc = "return" /\ job'.status \in {"none", "paused"}
        /\ worker.pc = "fail" => /\ job'.status \in {"none", "failed", "retrying"}
                                 /\ isFinalAttempt => worker'.pc = "cancel"
                                 /\ ~isFinalAttempt => worker'.pc = "throw"
    BY <1>0, <1>4 DEF MarkActive, MarkCompleted, FailJob, RecordWorkerStopped, SetJobStatus,
       Goto, Workers
  <2>3. LastAttempt <=> isFinalAttempt
    BY <1>1 DEF LastAttempt, isFinalAttempt
  <2>4. (LastAttempt)' <=> LastAttempt
    BY <1>1, <2>1 DEF LastAttempt
  <2>5. job.status = "paused" => worker.pc = "start" /\ ctl \notin Requeueing
    <3>1. job.status = "paused" => worker.pc = "start"
      BY <2>1 DEF OrderInv, HeldInv
    <3>2. job.status = "paused" /\ worker.pc = "start" => ctl = "markQueued"
      BY DEF OrderInv, HeldInv
    <3>3. QED
      BY <3>1, <3>2 DEF Requeueing
  <2>6. job.status # "paused" => ctl \notin Requeueing
    BY DEF OrderInv, HeldInv
  <2>7. QueueInv'
    BY <1>1, <2>1, <2>2, <2>3, <2>4 DEF OrderInv, QueueInv
  <2>8. AskInv'
    BY <1>1, <2>1 DEF OrderInv, AskInv, Storing
  <2>9. HeldInv'
    BY <1>1, <2>1, <2>2, <2>5, <2>6 DEF OrderInv, HeldInv, StatusInv, Requeueing
  <2>10. StatusInv'
    BY <1>1, <1>2, <2>1, <2>2, <2>3, <2>4 DEF OrderInv, StatusInv, Underway
  <2>11. QED
    BY <2>7, <2>8, <2>9, <2>10 DEF OrderInv
<1>5. CASE CancelBatch \/ SetPosted
  <2>1. /\ UNCHANGED <<fo, job>> /\ worker.pc \in {"cancel", "posted"}
        /\ worker.pc = "cancel" => /\ worker'.pc = "throw"
                                   /\ batch'.status \in {"Canceled", batch.status}
        /\ worker.pc = "posted" => /\ worker'.pc = "finish"
                                   /\ batch'.status \in {"Posted", batch.status}
    BY <1>0, <1>5 DEF CancelBatch, SetPosted, SetBatchStatus, Goto, Workers
  <2>2. (LastAttempt)' <=> LastAttempt
    BY <1>1, <2>1 DEF LastAttempt
  <2>3. /\ job.status # "paused" /\ ctl \notin Requeueing /\ batch.status # "Posted"
        /\ worker.pc = "cancel" => LastAttempt
        /\ Untouched => batch.status = "Posting"
    BY <2>1 DEF OrderInv, QueueInv, HeldInv, StatusInv, Underway
  <2>4. QueueInv'
    BY <1>1, <2>1 DEF OrderInv, QueueInv
  <2>5. AskInv' /\ HeldInv'
    BY <1>1, <2>1, <2>3 DEF OrderInv, AskInv, HeldInv, Storing, Requeueing
  <2>6. StatusInv'
    BY <1>1, <1>2, <2>1, <2>2, <2>3 DEF OrderInv, StatusInv, Underway
  <2>7. QED
    BY <2>4, <2>5, <2>6 DEF OrderInv
<1>6. CASE Return
  <2>1. /\ worker.pc = "return" /\ worker'.pc = "idle" /\ redis'.state = "completed"
        /\ UNCHANGED <<batch, job, fo>>
    BY <1>0, <1>1, <1>6 DEF Return, IdleWorker
  <2>2. QueueInv' /\ AskInv'
    BY <1>1, <2>1 DEF OrderInv, QueueInv, AskInv, Storing
  <2>3. HeldInv' /\ StatusInv'
    BY <1>1, <1>2, <2>1 DEF OrderInv, HeldInv, StatusInv, Underway
  <2>4. QED
    BY <2>2, <2>3 DEF OrderInv
<1>7. CASE Throw
  <2>1. /\ worker.pc = "throw" /\ worker'.pc = "idle"
        /\ LastAttempt => redis'.state = "failed"
        /\ ~LastAttempt => redis'.state = "delayed"
        /\ UNCHANGED <<batch, job, fo>>
    BY <1>0, <1>1, <1>7 DEF Throw, IdleWorker, LastAttempt
  <2>2. job.status # "paused" /\ batch.status # "Posted"
    BY <2>1 DEF OrderInv, HeldInv, StatusInv
  <2>3. QueueInv'
    BY <1>1, <2>1 DEF OrderInv, QueueInv
  <2>4. AskInv'
    BY <1>1, <2>1 DEF OrderInv, AskInv, Storing
  <2>5. HeldInv' /\ StatusInv'
    BY <1>1, <1>2, <2>1, <2>2 DEF OrderInv, HeldInv, StatusInv, Underway
  <2>6. QED
    BY <2>3, <2>4, <2>5 DEF OrderInv
<1>8. QED
  BY <1>3, <1>4, <1>5, <1>6, <1>7 DEF Runs, MiddleStep, Processor, Settle

LEMMA OrderStep ==
  ASSUME TypeInv, DeletesCounted, OrderInv, Next, Ordered'
  PROVE  OrderInv'
<1>1. ~StoreFault /\ ~Crash
  BY OrderedBefore
<1>2. QED
  BY <1>1, AskOrder, ControlOrder, BullOrder, RunOrder DEF Next, Runs

-----------------------------------------------------------------------------
(* What a step that leaves a journal alone leaves true of it.              *)
LEMMA JournalStays ==
  ASSUME TypeInv, Next, NEW h \in HeaderIds, fo'[h] = fo[h]
  PROVE  /\ h \in HeaderIds' /\ (h \in Live' <=> h \in Live)
         /\ (LeftBehind(h) => LeftBehind(h)') /\ (Full(h)' <=> Full(h))
<1>1. h \in HeaderIds' /\ (h \in Live' <=> h \in Live)
  BY LiveStep DEF Live
<1>2. LeftBehind(h) => LeftBehind(h)'
  <2>1. batch \in [exists : BOOLEAN, status : BatchStatus, paused : BOOLEAN,
                   dfoIds : SUBSET HeaderIds]
    BY DEF TypeInv, TypeOK, BatchOK
  <2>2. batch'.exists => batch.exists
    <3>1. ASSUME NEW s \in Submitters, Submit(s)
          PROVE  batch'.exists = batch.exists
      BY <2>1, <3>1 DEF Submit, SubmitValidate, SubmitPrepare, SubmitLookup,
       SubmitMarkPosted, SubmitRemoveFailed, SubmitStorePrepare,
       ReplaceDeleteGroups, ReplaceInsertGroups, ReplaceUpsertJob, SubmitAdd, SetBatchStatus
    <3>2. ASSUME Control
          PROVE  batch'.exists => batch.exists
      BY <2>1, <3>2 DEF Control, PauseRead, PauseSet, ResumeRead, ResumeClear,
       ResumeFindJob, RequeueCheck, RequeueAdd, MarkQueued, DeleteRead,
       DeletePause, DeleteRedisJob, DeletePurge, DeleteBatch, SetBatchPaused
    <3>3. CASE CancelBatch \/ SetPosted \/ KeepRetainedIds \/ StoreCreatedHeaderIds
      BY <2>1, <3>3 DEF CancelBatch, SetPosted, KeepRetainedIds, StoreCreatedHeaderIds,
         SetBatchStatus, AddDfoIds
    <3>4. CASE UNCHANGED batch
      BY <3>4
    <3>5. QED
      BY <3>1, <3>2, <3>3, <3>4 DEF Next, PickUp, PromoteDelayed, Stalled, Boot,
       ReleaseRead, ForceRemove, Restore, Processor, MarkActive,
       ListGroups, CheckPause, RecordWorkerStopped, MarkGroupActive,
       CompleteGroup, CountGroup, MarkCompleted, FailJob, Return, Throw,
       PostGroup, ReuseHeader, CreateHeader, CreateHeaderRejected, CreateHeaderUnanswered,
       SetCreatedHeader, PostLines, PostLinesRepeated, PostLinesRejected,
       RollBack, StartRollback, RollbackLines, RollbackHeader, RetainHeader,
       RollbackDone, ResetGroups, Settle, StoreFault, Crash
  <2>3. batch'.exists => batch.dfoIds \subseteq batch'.dfoIds
    BY <2>2, IdsStay
  <2>4. QED
    BY <2>2, <2>3 DEF LeftBehind
<1>3. QED
  BY <1>1, <1>2 DEF Full

LEMMA AllJournalsStay ==
  ASSUME TypeInv, Next, UNCHANGED fo
  PROVE  /\ HeaderIds' = HeaderIds /\ Live' = Live
         /\ \A h : GroupOf(h)' = GroupOf(h)
         /\ \A h \in HeaderIds : (LeftBehind(h) => LeftBehind(h)') /\ (Full(h)' <=> Full(h))
<1>1. HeaderIds' = HeaderIds /\ Live' = Live /\ \A h : GroupOf(h)' = GroupOf(h)
  BY DEF HeaderIds, Live, GroupOf
<1>2. ASSUME NEW h \in HeaderIds
      PROVE  (LeftBehind(h) => LeftBehind(h)') /\ (Full(h)' <=> Full(h))
  BY JournalStays
<1>3. QED
  BY <1>1, <1>2

(* The processor finds no group once they have been purged, and keeps      *)
(* those there are.                                                        *)
LEMMA PurgeStays ==
  ASSUME TypeInv, Runs, groups = NoGroups
  PROVE  groups' = NoGroups
<1>0. \A g \in Groups : groups[g].status = "absent" /\ groups[g] = Absent
  BY DEF NoGroups, Absent
<1>1. CASE UNCHANGED groups
  BY <1>1
<1>2. CASE MarkGroupActive \/ CompleteGroup \/ SetCreatedHeader
  <2>1. worker.at \in Groups
    BY <1>2 DEF MarkGroupActive, CompleteGroup, SetCreatedHeader, TypeInv, WorkerPosition
  <2>2. QED
    BY <1>0, <1>2, <2>1 DEF MarkGroupActive, CompleteGroup, SetCreatedHeader, SetGroup
<1>3. CASE ResetGroups
  BY <1>0, <1>3 DEF ResetGroups, resetAfterRollback, NoGroups
<1>4. QED
  BY <1>1, <1>2, <1>3 DEF Runs, Processor, MarkActive, ListGroups, CheckPause,
   RecordWorkerStopped, CountGroup, MarkCompleted, FailJob,
   CancelBatch, Return, Throw, PostGroup, ReuseHeader, CreateHeader,
   CreateHeaderRejected, CreateHeaderUnanswered, PostLines,
   PostLinesRepeated, PostLinesRejected, RollBack, StartRollback,
   RollbackLines, RollbackHeader, RetainHeader, RollbackDone,
   KeepRetainedIds, Settle, StoreCreatedHeaderIds, SetPosted

PostedFacts == PostedIsComplete /\ PostedOnce /\ PostedIsKnown

(* What holds whatever the processor does next.                            *)
LEMMA DataFrame ==
  ASSUME TypeInv, OrderInv, DataInv, Next, Ordered', Runs
  PROVE  /\ (groups = NoGroups \/ Present)' /\ AskedInv'
         /\ Purged => Purged'
         /\ (Untouched)' <=> Untouched
<1>1. /\ UNCHANGED <<subs, ctl, boot, spent>>
      /\ worker.pc # "throw" => \A s \in Submitters : subs[s] = "idle"
  BY RunsFrame
<1>2. (groups = NoGroups \/ Present)'
  <2>1. NoGroups' = NoGroups
    BY DEF NoGroups
  <2>2. groups = NoGroups => groups' = NoGroups
    BY PurgeStays
  <2>3. Present => Present'
    BY GroupsStay DEF Runs
  <2>4. QED
    BY <2>1, <2>2, <2>3 DEF DataInv
<1>3. Purged => Purged'
  BY <1>1, PurgeStays DEF Purged
<1>4. AskedInv'
  <2>1. CASE worker.pc # "throw"
    BY <1>1, <2>1 DEF AskedInv
  <2>2. CASE worker.pc = "throw"
    <3>1. UNCHANGED <<batch, fo, groups>>
      BY <2>2 DEF Runs, Processor, MarkActive, ListGroups, CheckPause,
       RecordWorkerStopped, MarkGroupActive, CompleteGroup, CountGroup, MarkCompleted, FailJob,
       CancelBatch, Return, Throw, PostGroup, ReuseHeader, CreateHeader,
       CreateHeaderRejected, CreateHeaderUnanswered, SetCreatedHeader, PostLines,
       PostLinesRepeated, PostLinesRejected, RollBack, StartRollback,
       RollbackLines, RollbackHeader, RetainHeader, RollbackDone,
       KeepRetainedIds, ResetGroups, Settle, StoreCreatedHeaderIds, SetPosted
    <3>2. QED
      BY <1>1, <3>1 DEF DataInv, AskedInv, Live, HeaderIds, LeftBehind, CompletedGroups
  <2>3. QED
    BY <2>1, <2>2
<1>5. QED
  BY <1>1, <1>2, <1>3, <1>4 DEF Untouched

(* Everybody but the processor.                                            *)
LEMMA OutsideData ==
  ASSUME TypeInv, DeletesCounted, OrderInv, DataInv, Next, Ordered', Outside
  PROVE  DataInv'
<1>0. /\ batch \in [exists : BOOLEAN, status : BatchStatus, paused : BOOLEAN,
                    dfoIds : SUBSET HeaderIds]
      /\ groups \in [Groups -> GroupDocs] /\ subs \in [Submitters -> SubPc]
      /\ spent \in [submits : Nat, pauses : Nat, deletes : Nat, faults : Nat, crashes : Nat]
      /\ spent' \in [submits : Nat, pauses : Nat, deletes : Nat, faults : Nat, crashes : Nat]
  BY TypeInvStep DEF TypeInv, TypeOK, BatchOK, GroupsOK, RequestsOK
<1>1. UNCHANGED <<fo, worker>>
  BY OutsideKeeps
<1>2. /\ HeaderIds' = HeaderIds /\ Live' = Live
      /\ \A h : GroupOf(h)' = GroupOf(h)
      /\ \A h \in HeaderIds : (LeftBehind(h) => LeftBehind(h)') /\ (Full(h)' <=> Full(h))
      /\ Created' = Created /\ \A g : (SnapDone(g)' <=> SnapDone(g)) /\ (Handled(g)' <=> Handled(g))
  BY <1>1, AllJournalsStay DEF Created, SnapDone, Handled
<1>3. OrderInv'
  BY OrderStep
<1>4. batch'.exists => batch.exists /\ batch.dfoIds \subseteq batch'.dfoIds
  <2>1. batch'.exists => batch.exists
    <3>1. CASE UNCHANGED batch
      BY <3>1
    <3>2. CASE batch' \in {[batch EXCEPT !.exists = FALSE], [batch EXCEPT !.paused = TRUE],
                           [batch EXCEPT !.paused = FALSE]}
      BY <1>0, <3>2
    <3>3. CASE \E s \in BatchStatus : SetBatchStatus(s)
      BY <1>0, <3>3 DEF SetBatchStatus
    <3>4. ASSUME NEW s \in Submitters, Submit(s)
          PROVE  UNCHANGED batch \/ \E st \in BatchStatus : SetBatchStatus(st)
      BY <3>4 DEF Submit, SubmitValidate, SubmitPrepare, SubmitLookup,
       SubmitMarkPosted, SubmitRemoveFailed, SubmitStorePrepare,
       ReplaceDeleteGroups, ReplaceInsertGroups, ReplaceUpsertJob, SubmitAdd, BatchStatus
    <3>5. QED
      BY <3>1, <3>2, <3>3, <3>4 DEF Outside, Control, PauseRead, PauseSet, ResumeRead,
       ResumeClear, ResumeFindJob, RequeueCheck, RequeueAdd, MarkQueued, DeleteRead,
       DeletePause, DeleteRedisJob, DeletePurge, DeleteBatch, SetBatchPaused,
       PromoteDelayed, Stalled, Boot, ReleaseRead, ForceRemove, Restore
  <2>2. QED
    BY <2>1, IdsStay
<1>5. batch'.status = "Posted" <=> batch.status = "Posted"
  <2>1. CASE \E s \in Submitters : SubmitPrepare(s)
    BY <1>0, <2>1 DEF SubmitPrepare, SetBatchStatus, OrderInv, AskInv
  <2>2. CASE \E s \in Submitters : SubmitMarkPosted(s)
    BY <2>2 DEF SubmitMarkPosted, OrderInv, AskInv
  <2>3. ASSUME NEW s \in Submitters, Submit(s), ~SubmitPrepare(s), ~SubmitMarkPosted(s)
        PROVE  UNCHANGED batch
    BY <2>3 DEF Submit, SubmitValidate, SubmitLookup, SubmitRemoveFailed, SubmitStorePrepare,
     ReplaceDeleteGroups, ReplaceInsertGroups, ReplaceUpsertJob, SubmitAdd
  <2>4. CASE \/ Control \/ PromoteDelayed \/ Stalled \/ Boot
    BY <1>0, <2>4 DEF Control, PauseRead, PauseSet, ResumeRead,
       ResumeClear, ResumeFindJob, RequeueCheck, RequeueAdd, MarkQueued, DeleteRead,
       DeletePause, DeleteRedisJob, DeletePurge, DeleteBatch, SetBatchPaused,
       PromoteDelayed, Stalled, Boot, ReleaseRead, ForceRemove, Restore
  <2>5. QED
    BY <2>1, <2>2, <2>3, <2>4 DEF Outside
(* What may become of the groups.                                          *)
<1>6. \/ UNCHANGED groups /\ (Purged => Purged')
      \/ groups' = NoGroups /\ spent'.deletes > 0
      \/ /\ worker.pc \notin InRun /\ groups' \in {NoGroups, [g \in Groups |-> Pending]}
         /\ \A h \in Live : LeftBehind(h)
  <2>1. CASE DeletePurge
    BY <1>0, <2>1 DEF DeletePurge, DeletesCounted
  <2>2. ASSUME NEW s \in Submitters, ReplaceDeleteGroups(s) \/ ReplaceInsertGroups(s)
        PROVE  /\ worker.pc \notin InRun
               /\ UNCHANGED groups \/ groups' \in {NoGroups, [g \in Groups |-> Pending]}
               /\ \A h \in Live : LeftBehind(h)
    <3>1. subs[s] # "idle"
      BY <2>2 DEF ReplaceDeleteGroups, ReplaceInsertGroups
    <3>2. worker.pc \notin InRun
      BY <3>1 DEF OrderInv, AskInv, InRun, Going
    <3>3. QED
      BY <2>2, <3>1, <3>2 DEF ReplaceDeleteGroups, ReplaceInsertGroups, DataInv, AskedInv
  <2>3. CASE UNCHANGED groups
    <3>1. spent'.deletes >= spent.deletes
      BY OrderedBefore
    <3>2. QED
      BY <1>0, <2>3, <3>1 DEF Purged
  <2>4. ASSUME NEW s \in Submitters, Submit(s), ~ReplaceDeleteGroups(s), ~ReplaceInsertGroups(s)
        PROVE  UNCHANGED groups
    BY <2>4 DEF Submit, SubmitValidate, SubmitPrepare, SubmitLookup,
     SubmitMarkPosted, SubmitRemoveFailed, SubmitStorePrepare, ReplaceUpsertJob, SubmitAdd
  <2>5. QED
    BY <2>1, <2>2, <2>3, <2>4 DEF Outside, Control, PauseRead, PauseSet, ResumeRead,
       ResumeClear, ResumeFindJob, RequeueCheck, RequeueAdd, MarkQueued, DeleteRead,
       DeletePause, DeleteRedisJob, DeleteBatch,
       PromoteDelayed, Stalled, Boot, ReleaseRead, ForceRemove, Restore
<1>7. NoGroups' = NoGroups
  BY DEF NoGroups
<1>8. (groups = NoGroups \/ Present)'
  BY <1>6, <1>7 DEF DataInv, Present, Pending
<1>9. AskedInv'
  <2>1. ASSUME NEW s \in Submitters, Submit(s)
        PROVE  AskedInv'
    <3>0. /\ batch'.exists => batch.exists
          /\ \A t \in Submitters : t # s /\ subs[t] # "idle" => subs[s] = "idle"
      BY <1>4 DEF OrderInv, AskInv
    <3>1. ASSUME NEW p \in SubPc, SubGoto(s, p)
          PROVE  subs'[s] = p /\ \A t \in Submitters : t # s => subs'[t] = subs[t]
      BY <1>0, <3>1 DEF SubGoto
    <3>2. CASE SubmitValidate(s)
      <4>1. /\ subs[s] = "idle" /\ subs'[s] = "prepare" /\ batch.exists
            /\ \A t \in Submitters : t # s => subs'[t] = subs[t]
            /\ batch.status \notin {"Posting", "Posted"} /\ UNCHANGED <<groups, batch>>
        BY <3>1, <3>2 DEF SubmitValidate, SubPc
      <4>2. spent'.submits = spent.submits + 1
        BY <1>0, <3>2 DEF SubmitValidate, Spend
      <4>3. \A t \in Submitters : t # s => subs'[t] = "idle"
        BY <1>3, <4>1 DEF OrderInv, AskInv
      <4>4. \A h \in Live : LeftBehind(h)
        <5>1. CASE spent.submits = 0
          BY <5>1 DEF OrderInv, QueueInv, Live, HeaderIds
        <5>2. CASE Untouched
          <6>1. batch.status \in {"PendingPosting", "Canceled"}
            BY <1>0, <4>1 DEF BatchStatus
          <6>2. CASE batch.status = "PendingPosting"
            BY <4>1, <5>2, <6>2 DEF OrderInv, StatusInv, Live, HeaderIds
          <6>3. CASE batch.status = "Canceled"
            <7>1. worker.pc \in {"idle", "throw"}
              BY <5>2, <6>3 DEF OrderInv, StatusInv
            <7>2. RestInv
              BY <6>3, <7>1 DEF DataInv, InRun, Going
            <7>3. ~Purged
              BY <1>0, <5>2 DEF Purged, Untouched
            <7>4. QED
              BY <5>2, <7>2, <7>3 DEF RestInv, CompletedGroups
          <6>4. QED
            BY <6>1, <6>2, <6>3
        <5>3. QED
          BY <1>0, <4>2, <5>1, <5>2, OrderedBefore
      <4>5. \A h \in Live' : LeftBehind(h)'
        BY <1>2, <4>4 DEF Live
      <4>6. QED
        BY <4>1, <4>3, <4>5 DEF AskedInv
    <3>3. CASE ~SubmitValidate(s)
      <4>1. subs[s] # "idle"
        BY <2>1, <3>3 DEF Submit, SubmitPrepare, SubmitLookup,
         SubmitMarkPosted, SubmitRemoveFailed, SubmitStorePrepare,
         ReplaceDeleteGroups, ReplaceInsertGroups, ReplaceUpsertJob, SubmitAdd
      <4>2. \A h \in Live' : LeftBehind(h)'
        BY <1>2, <4>1 DEF DataInv, AskedInv, Live
      <4>3. \A t \in Submitters : t # s => subs'[t] = "idle"
        <5>1. \A t \in Submitters : t # s => subs[t] = "idle"
          BY <3>0, <4>1
        <5>2. \E p : SubGoto(s, p)
          BY <2>1 DEF Submit, SubmitValidate, SubmitPrepare, SubmitLookup,
           SubmitMarkPosted, SubmitRemoveFailed, SubmitStorePrepare,
           ReplaceDeleteGroups, ReplaceInsertGroups, ReplaceUpsertJob, SubmitAdd
        <5>3. QED
          BY <1>0, <5>1, <5>2 DEF SubGoto
      <4>4. /\ subs'[s] = "insertGroups" => groups' = NoGroups
            /\ subs'[s] = "upsertJob" => CompletedGroups' = {}
        <5>1. CASE ReplaceDeleteGroups(s)
          BY <3>1, <5>1 DEF ReplaceDeleteGroups, SubPc
        <5>2. CASE ReplaceInsertGroups(s)
          <6>1. groups = NoGroups
            BY <5>2 DEF ReplaceInsertGroups, DataInv, AskedInv
          <6>2. /\ groups' = [g \in Groups |-> Pending] /\ subs'[s] = "upsertJob"
            BY <3>1, <5>2, <6>1 DEF ReplaceInsertGroups, SubPc
          <6>3. QED
            BY <6>2 DEF CompletedGroups, Pending
        <5>3. CASE ~ReplaceDeleteGroups(s) /\ ~ReplaceInsertGroups(s)
          <6>1. \E p \in SubPc \ {"insertGroups", "upsertJob"} : SubGoto(s, p)
            BY <2>1, <5>3 DEF Submit, SubmitValidate, SubmitPrepare, SubmitLookup,
             SubmitMarkPosted, SubmitRemoveFailed, SubmitStorePrepare,
             ReplaceUpsertJob, SubmitAdd, SubPc
          <6>2. QED
            BY <3>1, <6>1
        <5>4. QED
          BY <5>1, <5>2, <5>3
      <4>5. QED
        BY <1>7, <4>2, <4>3, <4>4 DEF AskedInv
    <3>4. QED
      BY <3>2, <3>3
  <2>2. CASE Control \/ PromoteDelayed \/ Stalled \/ Boot
    <3>1. UNCHANGED subs /\ (UNCHANGED groups \/ groups' = NoGroups)
      BY <2>2 DEF Control, PauseRead, PauseSet, ResumeRead,
       ResumeClear, ResumeFindJob, RequeueCheck, RequeueAdd, MarkQueued, DeleteRead,
       DeletePause, DeleteRedisJob, DeletePurge, DeleteBatch,
       PromoteDelayed, Stalled, Boot, ReleaseRead, ForceRemove, Restore
    <3>2. groups' = NoGroups => CompletedGroups' = {}
      BY DEF NoGroups, Absent, CompletedGroups
    <3>3. UNCHANGED groups => CompletedGroups' = CompletedGroups
      BY DEF CompletedGroups
    <3>4. QED
      BY <1>2, <1>7, <3>1, <3>2, <3>3 DEF DataInv, AskedInv, Live
  <2>3. QED
    BY <2>1, <2>2 DEF Outside
<1>10. ASSUME worker.pc \in InRun
       PROVE  SnapInv' /\ (Purged \/ DoneInv)'
  <2>0. /\ SnapInv /\ (Purged \/ DoneInv)
        /\ \A g \in Groups : worker.snap[g].header \in {NoHeader} \cup HeaderIds
        /\ \A g \in Groups : groups[g].header \in {NoHeader} \cup HeaderIds
        /\ (Untouched' => Untouched)
        /\ Live \subseteq HeaderIds /\ Created \subseteq HeaderIds
    BY <1>10, Numbers, OrderedBefore DEF DataInv, Live, Created
  <2>1. SnapInv'
    <3>1. \A g \in Groups : SnapDone(g) => Full(worker.snap[g].header) /\ worker.snap[g].header \in HeaderIds
      BY <2>0 DEF SnapInv, Full
    <3>2. \A h \in worker.failed : h \in HeaderIds
      BY <2>0 DEF SnapInv
    <3>3. QED
      BY <1>1, <1>2, <2>0, <3>1, <3>2 DEF SnapInv
  <2>2. (Purged \/ DoneInv)'
    <3>1. CASE UNCHANGED groups /\ (Purged => Purged')
      <4>1. DoneInv => DoneInv'
        BY <1>1, <1>2, <2>0, <3>1 DEF DoneInv, Present
      <4>2. QED
        BY <2>0, <3>1, <4>1
    <3>2. CASE groups' = NoGroups /\ spent'.deletes > 0
      BY <1>7, <3>2 DEF Purged
    <3>3. QED
      BY <1>6, <1>10, <3>1, <3>2
  <2>3. QED
    BY <2>1, <2>2
<1>11. ASSUME worker.pc \in Going
       PROVE  LoopInv' /\ (Purged \/ MarkInv)'
  <2>0. /\ LoopInv /\ (Purged \/ MarkInv) /\ worker.pc \in InRun
        /\ Live \subseteq HeaderIds /\ Created \subseteq HeaderIds
    BY <1>11, Numbers DEF DataInv, Live, Created, InRun
  <2>1. LoopInv'
    BY <1>1, <1>2, <1>4, <2>0 DEF LoopInv
  <2>2. (Purged \/ MarkInv)'
    <3>1. CASE UNCHANGED groups /\ (Purged => Purged')
      <4>1. MarkInv => MarkInv'
        BY <1>1, <1>2, <2>0, <3>1 DEF MarkInv
      <4>2. QED
        BY <2>0, <3>1, <4>1
    <3>2. CASE groups' = NoGroups /\ spent'.deletes > 0
      BY <1>7, <3>2 DEF Purged
    <3>3. QED
      BY <1>6, <2>0, <3>1, <3>2
  <2>3. QED
    BY <2>1, <2>2
<1>12. ASSUME worker.pc \notin InRun, batch'.status # "Posted"
       PROVE  RestInv'
  <2>0. /\ RestInv /\ (Untouched' => Untouched) /\ Live \subseteq HeaderIds
        /\ \A g \in Groups : groups[g].header \in {NoHeader} \cup HeaderIds
        /\ \A g \in Groups : groups[g].status = "completed" => groups[g].header \in HeaderIds
    BY <1>5, <1>12, Numbers, OrderedBefore DEF DataInv, RestInv, Full, Live
  <2>1. CASE UNCHANGED groups /\ (Purged => Purged')
    BY <1>2, <2>0, <2>1 DEF RestInv, CompletedGroups
  <2>2. CASE groups' = NoGroups /\ spent'.deletes > 0
    <3>1. Purged' /\ \A g \in Groups : groups'[g] = Absent
      BY <1>7, <2>2 DEF Purged, NoGroups
    <3>2. QED
      BY <3>1 DEF RestInv, Absent, CompletedGroups
  <2>3. CASE /\ groups' \in {NoGroups, [g \in Groups |-> Pending]}
             /\ \A h \in Live : LeftBehind(h)
    <3>1. \A g \in Groups : groups'[g] \in {Absent, Pending}
      BY <2>3 DEF NoGroups
    <3>2. \A h \in Live' : LeftBehind(h)'
      BY <1>2, <2>0, <2>3
    <3>3. QED
      BY <3>1, <3>2 DEF RestInv, Absent, Pending, CompletedGroups
  <2>4. QED
    BY <1>6, <2>1, <2>2, <2>3
<1>13. ASSUME batch'.status = "Posted"
       PROVE  PostedFacts'
  <2>1. batch'.dfoIds = batch.dfoIds
    BY <1>0 DEF Outside, Submit, SubmitValidate, SubmitPrepare, SubmitLookup,
         SubmitMarkPosted, SubmitRemoveFailed, SubmitStorePrepare,
         ReplaceDeleteGroups, ReplaceInsertGroups, ReplaceUpsertJob, SubmitAdd,
         Control, PauseRead, PauseSet, ResumeRead,
         ResumeClear, ResumeFindJob, RequeueCheck, RequeueAdd, MarkQueued, DeleteRead,
         DeletePause, DeleteRedisJob, DeletePurge, DeleteBatch, SetBatchPaused, SetBatchStatus,
         PromoteDelayed, Stalled, Boot, ReleaseRead, ForceRemove, Restore
  <2>2. PostedFacts
    BY <1>5, <1>13 DEF DataInv, PostedFacts
  <2>3. QED
    BY <1>1, <1>2, <1>5, <1>13, <2>1, <2>2
      DEF PostedFacts, PostedIsComplete, PostedOnce, PostedIsKnown, Posted
<1>14. QED
  BY <1>1, <1>8, <1>9, <1>10, <1>11, <1>12, <1>13 DEF DataInv, PostedFacts

-----------------------------------------------------------------------------
(* The processor, step by step.                                            *)
DataGiven == JournalInv /\ RollbackInv /\ OrderInv /\ DataInv

(* What the invariants say about the numbers a run works with.             *)
LEMMA RunNumbers ==
  ASSUME DataGiven
  PROVE  /\ TypeInv /\ worker \in Workers /\ fo \in Seq(Journals)
         /\ groups \in [Groups -> GroupDocs] /\ worker.snap \in [Groups -> GroupDocs]
         /\ Live \subseteq HeaderIds /\ Created \subseteq HeaderIds
         /\ HeaderIds \subseteq Nat \ {0} /\ Groups \subseteq Nat /\ worker.at \in Nat
         /\ \A h \in HeaderIds : GroupOf(h) \in Groups /\ fo[h] \in Journals
         /\ \A g \in Groups : groups[g].header \in {NoHeader} \cup HeaderIds
         /\ \A g \in Groups : worker.snap[g].header \in {NoHeader} \cup HeaderIds
         /\ \A g \in Groups : groups[g].header # NoHeader => GroupOf(groups[g].header) = g
         /\ \A g \in Groups :
              worker.snap[g].header # NoHeader => GroupOf(worker.snap[g].header) = g
         /\ \A h, k \in Created : GroupOf(h) = GroupOf(k) => h = k
         /\ \A h \in Created : GroupOf(h) <= worker.at
         /\ worker.pc \in OpensGroup => \A h \in Created : GroupOf(h) < worker.at
<1>1. /\ TypeInv /\ worker \in Workers /\ fo \in Seq(Journals)
      /\ groups \in [Groups -> GroupDocs] /\ worker.snap \in [Groups -> GroupDocs]
  BY DEF DataGiven, JournalInv, TypeInv, TypeOK, WorkerOK, FoOK, GroupsOK, Workers
<1>2. HeaderIds \subseteq Nat \ {0} /\ Groups \subseteq Nat /\ worker.at \in Nat
  BY <1>1, Numbers, DurableQueueAssumption DEF HeaderIds, Groups, DurableQueueAssumption
<1>3. Live \subseteq HeaderIds /\ Created \subseteq HeaderIds
  BY <1>1, Numbers DEF Live, Created
<1>4. \A h \in HeaderIds : GroupOf(h) \in Groups /\ fo[h] \in Journals
  BY <1>1, Numbers, JournalStep
<1>5. /\ \A h \in Created : GroupOf(h) <= worker.at
      /\ worker.pc \in OpensGroup => \A h \in Created : GroupOf(h) < worker.at
  BY DEF DataGiven, JournalInv, InOrder, Created
<1>6. ASSUME NEW h \in Created, NEW k \in Created, GroupOf(h) = GroupOf(k), h # k
      PROVE  FALSE
  <2>1. PICK i \in 1..Len(worker.created) : h = worker.created[i]
    BY DEF Created
  <2>2. PICK j \in 1..Len(worker.created) : k = worker.created[j]
    BY DEF Created
  <2>3. i < j \/ j < i
    BY <1>1, <1>6, <2>1, <2>2, Numbers
  <2>4. GroupOf(h) < GroupOf(k) \/ GroupOf(k) < GroupOf(h)
    BY <2>1, <2>2, <2>3 DEF DataGiven, JournalInv, InOrder
  <2>5. GroupOf(h) \in Nat /\ GroupOf(k) \in Nat
    BY <1>2, <1>3, <1>4
  <2>6. QED
    BY <1>6, <2>4, <2>5
<1>7. /\ \A g \in Groups : groups[g].header \in {NoHeader} \cup HeaderIds
      /\ \A g \in Groups : worker.snap[g].header \in {NoHeader} \cup HeaderIds
  BY <1>1, Numbers
<1>8. /\ \A g \in Groups : groups[g].header # NoHeader => GroupOf(groups[g].header) = g
      /\ \A g \in Groups :
           worker.snap[g].header # NoHeader => GroupOf(worker.snap[g].header) = g
  BY DEF DataGiven, JournalInv, OwnJournals
<1>9. \A h, k \in Created : GroupOf(h) = GroupOf(k) => h = k
  BY <1>6
<1>10. QED
  BY <1>1, <1>2, <1>3, <1>4, <1>5, <1>7, <1>8, <1>9

(* A step inside a run.                                                    *)
LEMMA RunGoesOn ==
  ASSUME DataGiven, Next, Ordered', Runs, worker'.pc \in InRun,
         SnapInv', (Purged \/ DoneInv)',
         worker'.pc \in Going => LoopInv' /\ (Purged \/ MarkInv)'
  PROVE  DataInv'
<1>1. TypeInv /\ OrderInv /\ DataInv
  BY DEF DataGiven, JournalInv
<1>2. (groups = NoGroups \/ Present)' /\ AskedInv'
  BY <1>1, DataFrame
<1>3. OrderInv'
  <2>1. CASE Runs
    BY <1>1, <2>1, RunOrder
  <2>2. QED
    BY <2>1
<1>4. batch'.status # "Posted"
  BY <1>3 DEF OrderInv, StatusInv, InRun, Going
<1>5. worker'.pc \notin {"start", "list"}
  BY DEF InRun, Going
<1>6. QED
  BY <1>2, <1>4, <1>5 DEF DataInv

(* A step outside the runs.                                                *)
LEMMA RestStays ==
  ASSUME TypeInv, Next, UNCHANGED <<fo, groups>>, RestInv,
         Purged => Purged', Untouched' => Untouched
  PROVE  RestInv'
<1>1. /\ HeaderIds' = HeaderIds /\ Live' = Live
      /\ \A h \in HeaderIds : (LeftBehind(h) => LeftBehind(h)') /\ (Full(h)' <=> Full(h))
  BY AllJournalsStay
<1>2. /\ \A g \in Groups : groups[g].header \in {NoHeader} \cup HeaderIds
      /\ \A g \in Groups : groups[g].status = "completed" => groups[g].header \in HeaderIds
      /\ Live \subseteq HeaderIds
  BY Numbers DEF RestInv, Full, Live
<1>3. QED
  BY <1>1, <1>2 DEF RestInv, CompletedGroups

LEMMA PostedStays ==
  ASSUME UNCHANGED fo, batch'.dfoIds = batch.dfoIds, PostedFacts, batch.status = "Posted"
  PROVE  PostedFacts'
<1>1. HeaderIds' = HeaderIds /\ Live' = Live
  BY DEF HeaderIds, Live
<1>2. QED
  BY <1>1 DEF PostedFacts, PostedIsComplete, PostedOnce, PostedIsKnown, Posted

LEMMA PickUpData ==
  ASSUME DataGiven, Next, Ordered', PickUp
  PROVE  DataInv'
<1>1. /\ UNCHANGED <<batch, groups, fo, subs, spent>> /\ worker.pc = "idle"
      /\ worker'.pc = "start" /\ worker'.created = <<>> /\ worker'.failed = {}
      /\ worker'.at = 0
  <2>1. worker' = [IdleWorker EXCEPT !.pc = "start", !.attempt = redis.attempts]
    BY DEF PickUp
  <2>2. QED
    BY <2>1 DEF PickUp, IdleWorker
<1>2. TypeInv /\ DataInv /\ (RestInv => RestInv')
  BY <1>1, RestStays DEF DataGiven, JournalInv, Purged, NoGroups, Untouched
<1>3. worker.pc \notin InRun /\ worker'.pc \notin InRun /\ Going \subseteq InRun
  BY <1>1 DEF InRun, Going
<1>4. AskedInv' /\ (groups = NoGroups \/ Present)'
  BY <1>1, <1>2 DEF DataInv, AskedInv, Present, NoGroups, CompletedGroups, LeftBehind, Live,
     HeaderIds
<1>5. batch'.status = "Posted" => PostedFacts'
  BY <1>1, <1>2, PostedStays DEF DataInv, PostedFacts
<1>6. QED
  BY <1>1, <1>2, <1>3, <1>4, <1>5 DEF DataInv, PostedFacts

(* The steps that begin and end a run.                                     *)
LEMMA EndsData ==
  ASSUME DataGiven, Next, Ordered',
         \/ MarkActive \/ MarkCompleted \/ FailJob \/ CancelBatch \/ Return \/ Throw
         \/ ListGroups /\ groups = NoGroups
  PROVE  DataInv'
<1>0. /\ TypeInv /\ OrderInv /\ DataInv /\ worker \in Workers /\ Runs
      /\ batch \in [exists : BOOLEAN, status : BatchStatus, paused : BOOLEAN,
                    dfoIds : SUBSET HeaderIds]
  BY DEF DataGiven, JournalInv, TypeInv, TypeOK, WorkerOK, BatchOK, Runs, Processor
<1>1. /\ UNCHANGED <<groups, fo>>
      /\ worker.pc \in {"start", "list", "finish", "fail", "cancel", "return", "throw"}
      /\ worker'.pc \in {"list", "return", "cancel", "throw", "idle", "fail"}
      /\ worker.pc # "start" => worker'.pc # "list"
      /\ worker.pc = "start" => /\ worker'.created = worker.created
                                /\ worker'.failed = worker.failed /\ worker'.at = worker.at
  <2>1. CASE Return \/ Throw
    BY <2>1 DEF Return, Throw, IdleWorker
  <2>2. CASE MarkActive \/ MarkCompleted \/ FailJob \/ CancelBatch
    BY <1>0, <2>2 DEF MarkActive, MarkCompleted, FailJob, CancelBatch, Goto, Workers
  <2>3. CASE ListGroups /\ groups = NoGroups
    BY <1>0, <2>3 DEF ListGroups, Workers
  <2>4. QED
    BY <2>1, <2>2, <2>3
<1>2. /\ batch'.dfoIds = batch.dfoIds
      /\ batch'.status = "Posted" <=> batch.status = "Posted"
  <2>1. CASE CancelBatch
    BY <1>0, <2>1 DEF CancelBatch, SetBatchStatus, OrderInv, StatusInv
  <2>2. CASE ~CancelBatch
    BY <2>2 DEF MarkActive, MarkCompleted, FailJob, Return, Throw, ListGroups
  <2>3. QED
    BY <2>1, <2>2
<1>3. (groups = NoGroups \/ Present)' /\ AskedInv' /\ (Purged => Purged')
      /\ ((Untouched)' <=> Untouched)
  BY <1>0, DataFrame
<1>4. worker.pc \notin InRun /\ worker'.pc \notin InRun /\ Going \subseteq InRun
  BY <1>1 DEF InRun, Going
<1>5. batch'.status # "Posted" => RestInv'
  BY <1>0, <1>1, <1>2, <1>3, <1>4, RestStays DEF DataInv
<1>6. batch'.status = "Posted" => PostedFacts'
  BY <1>0, <1>1, <1>2, PostedStays DEF DataInv, PostedFacts
<1>7. worker'.pc \in {"start", "list"} =>
        worker'.created = <<>> /\ worker'.failed = {} /\ worker'.at = 0
  BY <1>0, <1>1 DEF DataInv
<1>8. QED
  BY <1>3, <1>4, <1>5, <1>6, <1>7 DEF DataInv, PostedFacts

(* A run starts from what the runs before it have left.                    *)
LEMMA ListData ==
  ASSUME DataGiven, Next, Ordered', ListGroups, groups # NoGroups
  PROVE  DataInv'
<1>0. /\ TypeInv /\ OrderInv /\ DataInv /\ worker \in Workers /\ Runs
  BY DEF DataGiven, JournalInv, TypeInv, TypeOK, WorkerOK, Runs, Processor
<1>1. /\ UNCHANGED <<groups, fo, batch, spent>> /\ worker.pc = "list"
      /\ worker'.pc = "check" /\ worker'.snap = groups
      /\ worker'.created = <<>> /\ worker'.failed = {} /\ worker'.at = 0
  BY <1>0 DEF ListGroups, Workers, DataInv
<1>2. RestInv /\ ~Purged /\ Present
  BY <1>0, <1>1 DEF DataInv, InRun, Going, OrderInv, StatusInv, Purged
<1>3. /\ HeaderIds' = HeaderIds /\ Live' = Live
      /\ \A h : GroupOf(h)' = GroupOf(h)
      /\ \A h \in HeaderIds : (LeftBehind(h) => LeftBehind(h)') /\ (Full(h)' <=> Full(h))
      /\ Created' = {} /\ ((Untouched)' <=> Untouched)
      /\ \A g \in Groups : SnapDone(g)' <=> groups[g].status = "completed"
      /\ \A g \in Groups : ~Handled(g)'
  <2>1. Created' = {}
    BY <1>1 DEF Created
  <2>2. \A g \in Groups : ~Handled(g)'
    BY <1>1, DurableQueueAssumption DEF Handled, Groups, DurableQueueAssumption
  <2>3. QED
    BY <1>0, <1>1, <2>1, <2>2, AllJournalsStay DEF SnapDone, Untouched
<1>4. /\ Live \subseteq HeaderIds
      /\ \A g \in Groups : groups[g].header \in {NoHeader} \cup HeaderIds
      /\ \A g \in Groups : groups[g].status = "completed" => groups[g].header \in HeaderIds
  BY <1>2, RunNumbers DEF RestInv, Full
<1>5. SnapInv'
  BY <1>1, <1>2, <1>3, <1>4 DEF RestInv, SnapInv, CompletedGroups
<1>6. DoneInv'
  BY <1>1, <1>2, <1>3, <1>4 DEF RestInv, DoneInv, Present
<1>7. LoopInv'
  BY <1>1, <1>3 DEF LoopInv, AtGroup
<1>8. MarkInv'
  BY <1>1, <1>3 DEF MarkInv
<1>9. QED
  BY <1>0, <1>1, <1>5, <1>6, <1>7, <1>8, RunGoesOn DEF InRun, Going

(* Facts about the snapshot and the groups that a step inside the run      *)
(* keeps when Finance, the snapshot and the list of the run stay.          *)
LEMMA RunKept ==
  ASSUME DataGiven, Next, Ordered', Runs, UNCHANGED fo,
         worker'.snap = worker.snap, worker'.created = worker.created,
         worker'.failed = worker.failed, worker.pc \in InRun, worker.pc # "record",
         worker'.pc = "reset" => \A h \in worker.failed : LeftBehind(h)'
  PROVE  /\ SnapInv' /\ (UNCHANGED groups => (Purged \/ DoneInv)')
         /\ HeaderIds' = HeaderIds /\ Live' = Live /\ Created' = Created
         /\ \A g : (SnapDone(g)' <=> SnapDone(g)) /\ GroupOf(g)' = GroupOf(g)
         /\ \A h \in HeaderIds : (LeftBehind(h) => LeftBehind(h)') /\ (Full(h)' <=> Full(h))
<1>1. /\ TypeInv /\ OrderInv /\ DataInv /\ SnapInv /\ (Purged \/ DoneInv)
      /\ (Purged => Purged') /\ ((Untouched)' <=> Untouched)
  BY DataFrame DEF DataGiven, JournalInv, DataInv
<1>2. /\ HeaderIds' = HeaderIds /\ Live' = Live /\ Created' = Created
      /\ \A g : (SnapDone(g)' <=> SnapDone(g)) /\ GroupOf(g)' = GroupOf(g)
      /\ \A h \in HeaderIds : (LeftBehind(h) => LeftBehind(h)') /\ (Full(h)' <=> Full(h))
  BY <1>1, AllJournalsStay DEF Created, SnapDone
<1>3. /\ Live \subseteq HeaderIds /\ Created \subseteq HeaderIds
      /\ \A g \in Groups : groups[g].header \in {NoHeader} \cup HeaderIds
      /\ \A g \in Groups : worker.snap[g].header \in {NoHeader} \cup HeaderIds
      /\ \A g \in Groups : SnapDone(g) => worker.snap[g].header \in HeaderIds
  BY <1>1, RunNumbers DEF SnapInv, Full
<1>4. SnapInv'
  BY <1>1, <1>2, <1>3 DEF SnapInv
<1>5. UNCHANGED groups => (DoneInv => DoneInv')
  BY <1>1, <1>2, <1>3 DEF DoneInv, Present
<1>6. QED
  BY <1>1, <1>2, <1>4, <1>5

LEMMA CheckData ==
  ASSUME DataGiven, Next, Ordered', CheckPause
  PROVE  DataInv'
<1>0. /\ TypeInv /\ OrderInv /\ DataInv /\ worker \in Workers /\ Runs
      /\ worker.pc = "check" /\ UNCHANGED <<batch, groups, fo, spent>>
      /\ worker.pc \in InRun /\ worker.pc \in Going
  BY DEF DataGiven, JournalInv, TypeInv, TypeOK, WorkerOK, Runs, Processor, CheckPause, InRun,
     Going
<1>1. /\ worker'.snap = worker.snap /\ worker'.created = worker.created
      /\ worker'.failed = worker.failed
      /\ \/ worker'.pc = "settle" /\ worker'.at = worker.at /\ Unposted = {}
         \/ worker'.pc = "stop" /\ worker'.at = worker.at
         \/ /\ worker'.pc = "markGroup" /\ worker'.at \in Unposted
            /\ \A k \in Unposted : worker'.at <= k
  <2>1. CASE Unposted = {} /\ Goto("settle")
    BY <1>0, <2>1 DEF Goto, Workers
  <2>2. CASE Goto("stop")
    BY <1>0, <2>2 DEF Goto, Workers
  <2>3. ASSUME NEW g \in Unposted, \A k \in Unposted : g <= k,
               worker' = [worker EXCEPT !.pc = "markGroup", !.at = g]
        PROVE  /\ worker'.snap = worker.snap /\ worker'.created = worker.created
               /\ worker'.failed = worker.failed /\ worker'.pc = "markGroup"
               /\ worker'.at = g
    BY <1>0, <2>3 DEF Workers
  <2>4. QED
    BY <2>1, <2>2, <2>3 DEF CheckPause
<1>2. /\ SnapInv' /\ (Purged \/ DoneInv)'
      /\ HeaderIds' = HeaderIds /\ Live' = Live /\ Created' = Created
      /\ \A g : (SnapDone(g)' <=> SnapDone(g)) /\ GroupOf(g)' = GroupOf(g)
      /\ \A h \in HeaderIds : (LeftBehind(h) => LeftBehind(h)') /\ (Full(h)' <=> Full(h))
  BY <1>0, <1>1, RunKept
<1>3. /\ LoopInv /\ (Purged \/ MarkInv) /\ (Purged => Purged')
  BY <1>0, DataFrame DEF DataInv
<1>4. /\ Created \subseteq HeaderIds /\ \A h \in HeaderIds : GroupOf(h) \in Groups
      /\ Groups \subseteq Nat /\ worker.at \in Nat
      /\ \A h \in Created : GroupOf(h) <= worker.at
  BY RunNumbers
<1>5. ASSUME NEW h \in Created
      PROVE  Full(h)
  <2>1. GroupOf(h) \in Nat /\ GroupOf(h) <= worker.at
    BY <1>4
  <2>2. GroupOf(h) < worker.at \/ GroupOf(h) = worker.at
    BY <1>4, <2>1
  <2>3. Handled(GroupOf(h))
    BY <1>0, <2>2 DEF Handled, AfterGroup
  <2>4. QED
    BY <1>3, <2>3 DEF LoopInv
<1>6. CASE worker'.pc \in {"settle", "stop"}
  <2>1. \A g : (Handled(g)' <=> Handled(g))
    BY <1>0, <1>1, <1>6 DEF Handled, AfterGroup
  <2>2. worker'.pc = "settle" => \A g \in Groups : g > worker.at => SnapDone(g)
    BY <1>1, <1>6 DEF Unposted, SnapDone
  <2>3. LoopInv'
    BY <1>1, <1>2, <1>3, <1>4, <1>5, <1>6, <2>1, <2>2 DEF LoopInv, AtGroup
  <2>4. MarkInv => MarkInv'
    BY <1>0, <1>1, <1>2, <1>6 DEF MarkInv, AfterGroup
  <2>5. QED
    BY <1>0, <1>2, <1>3, <1>6, <2>3, <2>4, RunGoesOn DEF InRun, Going
<1>7. CASE worker'.pc = "markGroup"
  <2>1. /\ worker'.at \in Groups /\ worker'.at > worker.at /\ ~SnapDone(worker'.at)
        /\ \A k \in Unposted : worker'.at <= k
    BY <1>1, <1>7 DEF Unposted, SnapDone
  <2>2. \A g \in Groups : Handled(g)' => Handled(g) \/ SnapDone(g)
    <3> SUFFICES ASSUME NEW g \in Groups, Handled(g)', ~SnapDone(g)
                 PROVE  Handled(g)
      OBVIOUS
    <3>1. g < worker'.at
      BY <1>7 DEF Handled, AfterGroup
    <3>2. g \notin Unposted
      <4>1. g \in Nat /\ worker'.at \in Nat
        BY <1>4, <2>1
      <4>2. ~(worker'.at <= g)
        BY <3>1, <4>1
      <4>3. QED
        BY <2>1, <4>2
    <3>3. g <= worker.at
      BY <1>4, <3>2 DEF Unposted, SnapDone
    <3>4. QED
      BY <1>0, <1>4, <3>3 DEF Handled, AfterGroup
  <2>3. LoopInv'
    BY <1>1, <1>2, <1>3, <1>4, <1>5, <1>7, <2>1, <2>2 DEF LoopInv
  <2>4. ASSUME MarkInv PROVE MarkInv'
    <3>1. \A h \in Created : /\ groups[GroupOf(h)].header = h
                             /\ groups[GroupOf(h)].status = "completed"
      BY <1>0, <2>4 DEF MarkInv, AfterGroup
    <3>2. ASSUME NEW g \in Groups, g > worker'.at \/ g = worker'.at
          PROVE  groups[g].header = worker.snap[g].header
      <4>1. g \in Nat /\ worker'.at \in Nat /\ worker.at \in Nat
        BY <1>4, <2>1
      <4>2. g > worker.at
        BY <2>1, <3>2, <4>1
      <4>3. QED
        BY <2>4, <4>2 DEF MarkInv
    <3>3. QED
      BY <1>0, <1>1, <1>2, <2>1, <3>1, <3>2 DEF MarkInv
  <2>5. QED
    BY <1>0, <1>2, <1>3, <1>7, <2>3, <2>4, RunGoesOn DEF InRun, Going
<1>8. QED
  BY <1>1, <1>6, <1>7

(* The group the processor is at changes its status.                       *)
LEMMA MarkData ==
  ASSUME DataGiven, Next, Ordered', MarkGroupActive
  PROVE  DataInv'
<1>0. /\ TypeInv /\ OrderInv /\ DataInv /\ worker \in Workers /\ Runs
      /\ worker.pc = "markGroup" /\ UNCHANGED <<batch, fo, spent>>
      /\ worker.pc \in InRun /\ worker.pc \in Going
      /\ worker'.pc = "open" /\ worker'.at = worker.at
      /\ worker'.snap = worker.snap /\ worker'.created = worker.created
      /\ worker'.failed = worker.failed
  <2>1. TypeInv /\ OrderInv /\ DataInv /\ worker \in Workers /\ Runs
    BY DEF DataGiven, JournalInv, TypeInv, TypeOK, WorkerOK, Runs, Processor
  <2>2. worker.pc \in InRun /\ worker.pc \in Going
    BY DEF MarkGroupActive, InRun, Going
  <2>3. QED
    BY <2>1, <2>2 DEF MarkGroupActive, Goto, Workers
<1>1. /\ SnapInv' /\ HeaderIds' = HeaderIds /\ Live' = Live /\ Created' = Created
      /\ \A g : (SnapDone(g)' <=> SnapDone(g)) /\ GroupOf(g)' = GroupOf(g)
      /\ \A h \in HeaderIds : (LeftBehind(h) => LeftBehind(h)') /\ (Full(h)' <=> Full(h))
  BY <1>0, RunKept
<1>2. /\ LoopInv /\ SnapInv /\ (Purged \/ (DoneInv /\ MarkInv)) /\ (Purged => Purged')
  BY <1>0, DataFrame DEF DataInv
<1>3. /\ Created \subseteq HeaderIds /\ \A h \in HeaderIds : GroupOf(h) \in Groups
      /\ Groups \subseteq Nat /\ worker.at \in Nat
      /\ \A h \in Created : GroupOf(h) < worker.at
      /\ groups \in [Groups -> GroupDocs] /\ worker.at \in Groups
      /\ \A g \in Groups : groups[g].header \in {NoHeader} \cup HeaderIds
  BY <1>0, RunNumbers DEF OpensGroup, TypeInv, WorkerPosition
<1>4. ~SnapDone(worker.at)
  BY <1>0, <1>2 DEF LoopInv, AtGroup
<1>5. \A g : (Handled(g)' <=> Handled(g))
  BY <1>0 DEF Handled, AfterGroup
<1>6. LoopInv'
  BY <1>0, <1>1, <1>2, <1>3, <1>4, <1>5 DEF LoopInv
<1>7. CASE DoneInv /\ MarkInv
  <2>1. /\ groups'[worker.at].header = groups[worker.at].header
        /\ groups'[worker.at].status = "active"
        /\ \A g \in Groups : g # worker.at => groups'[g] = groups[g]
        /\ \A g \in Groups : groups'[g].header = groups[g].header
    BY <1>3, <1>7 DEF MarkGroupActive, SetGroup, DoneInv, Present, GroupDocs
  <2>2. DoneInv'
    BY <1>0, <1>1, <1>3, <1>4, <1>7, <2>1 DEF DoneInv, Present
  <2>3. MarkInv'
    <3>1. ASSUME NEW h \in Created
          PROVE  /\ GroupOf(h) \in Groups /\ GroupOf(h) # worker.at
                 /\ GroupOf(h) < worker.at
                 /\ groups'[GroupOf(h)] = groups[GroupOf(h)]
      <4>1. GroupOf(h) \in Groups /\ GroupOf(h) \in Nat /\ worker.at \in Nat
        BY <1>3
      <4>2. GroupOf(h) < worker.at /\ GroupOf(h) # worker.at
        BY <1>3, <4>1
      <4>3. QED
        BY <2>1, <4>1, <4>2
    <3>2. \A h \in Created : /\ groups[GroupOf(h)].header = h
                             /\ groups[GroupOf(h)].status = "completed"
      BY <1>7, <3>1 DEF MarkInv
    <3>3. \A h \in Created : /\ groups'[GroupOf(h)].header = h
                             /\ groups'[GroupOf(h)].status = "completed"
      BY <3>1, <3>2
    <3>4. \A g \in Groups : g > worker.at => groups'[g].header = worker.snap[g].header
      BY <1>7, <2>1 DEF MarkInv
    <3>5. groups'[worker.at].header = worker.snap[worker.at].header
      BY <1>0, <1>7, <2>1 DEF MarkInv
    <3>6. QED
      BY <1>0, <1>1, <3>3, <3>4, <3>5 DEF MarkInv
  <2>4. QED
    BY <1>0, <1>1, <1>6, <2>2, <2>3, RunGoesOn DEF InRun, Going
<1>8. CASE Purged
  BY <1>0, <1>1, <1>2, <1>6, <1>8, RunGoesOn DEF InRun, Going
<1>9. QED
  BY <1>2, <1>7, <1>8

LEMMA CompleteData ==
  ASSUME DataGiven, Next, Ordered', CompleteGroup
  PROVE  DataInv'
<1>0. /\ TypeInv /\ OrderInv /\ DataInv /\ worker \in Workers /\ Runs
      /\ worker.pc = "complete" /\ UNCHANGED <<batch, fo, spent>>
      /\ worker.pc \in InRun /\ worker.pc \in Going
      /\ worker'.pc \in {"count", "check"} /\ worker'.at = worker.at
      /\ worker'.snap = worker.snap /\ worker'.created = worker.created
      /\ worker'.failed = worker.failed
  <2>1. TypeInv /\ OrderInv /\ DataInv /\ worker \in Workers /\ Runs
    BY DEF DataGiven, JournalInv, TypeInv, TypeOK, WorkerOK, Runs, Processor
  <2>2. worker.pc \in InRun /\ worker.pc \in Going
    BY DEF CompleteGroup, InRun, Going
  <2>3. QED
    BY <2>1, <2>2 DEF CompleteGroup, Goto, Workers
<1>1. /\ SnapInv' /\ HeaderIds' = HeaderIds /\ Live' = Live /\ Created' = Created
      /\ \A g : (SnapDone(g)' <=> SnapDone(g)) /\ GroupOf(g)' = GroupOf(g)
      /\ \A h \in HeaderIds : (LeftBehind(h) => LeftBehind(h)') /\ (Full(h)' <=> Full(h))
  BY <1>0, RunKept
<1>2. /\ LoopInv /\ SnapInv /\ (Purged \/ (DoneInv /\ MarkInv)) /\ (Purged => Purged')
  BY <1>0, DataFrame DEF DataInv
<1>3. /\ Created \subseteq HeaderIds /\ \A h \in HeaderIds : GroupOf(h) \in Groups
      /\ Groups \subseteq Nat /\ worker.at \in Nat
      /\ \A h \in Created : GroupOf(h) <= worker.at
      /\ groups \in [Groups -> GroupDocs] /\ worker.at \in Groups
      /\ \A g \in Groups : groups[g].header \in {NoHeader} \cup HeaderIds
  BY <1>0, RunNumbers DEF TypeInv, WorkerPosition
<1>4. ~SnapDone(worker.at) /\ \E h \in Created : GroupOf(h) = worker.at
  BY <1>0, <1>2, <1>3 DEF LoopInv, AtGroup, Handled
<1>5. \A g : (Handled(g)' <=> Handled(g))
  BY <1>0 DEF Handled, AfterGroup
<1>6. LoopInv'
  BY <1>0, <1>1, <1>2, <1>3, <1>4, <1>5 DEF LoopInv
<1>7. CASE DoneInv /\ MarkInv
  <2>1. /\ groups'[worker.at].header = groups[worker.at].header
        /\ groups'[worker.at].status = "completed"
        /\ \A g \in Groups : g # worker.at => groups'[g] = groups[g]
        /\ \A g \in Groups : groups'[g].header = groups[g].header
    BY <1>3, <1>7 DEF CompleteGroup, SetGroup, DoneInv, Present, GroupDocs
  <2>2. groups[worker.at].header \in Created
    BY <1>4, <1>7 DEF MarkInv
  <2>3. DoneInv'
    BY <1>0, <1>1, <1>3, <1>4, <1>7, <2>1, <2>2 DEF DoneInv, Present
  <2>4. MarkInv'
    <3>1. ASSUME NEW h \in Created
          PROVE  /\ groups'[GroupOf(h)].header = h
                 /\ groups'[GroupOf(h)].status = "completed"
      <4>1. GroupOf(h) \in Groups /\ GroupOf(h) \in Nat /\ GroupOf(h) <= worker.at
        BY <1>3
      <4>2. groups'[GroupOf(h)].header = groups[GroupOf(h)].header
        BY <2>1, <4>1
      <4>3. groups[GroupOf(h)].header = h
        BY <1>7 DEF MarkInv
      <4>4. CASE GroupOf(h) = worker.at
        BY <2>1, <4>2, <4>3, <4>4
      <4>5. CASE GroupOf(h) # worker.at
        <5>1. GroupOf(h) < worker.at
          BY <1>3, <4>1, <4>5
        <5>2. groups[GroupOf(h)].status = "completed"
          BY <1>7, <5>1 DEF MarkInv
        <5>3. QED
          BY <2>1, <4>1, <4>2, <4>3, <4>5, <5>2
      <4>6. QED
        BY <4>4, <4>5
    <3>2. \A g \in Groups : g > worker.at => groups'[g].header = worker.snap[g].header
      BY <1>7, <2>1 DEF MarkInv
    <3>3. QED
      BY <1>0, <1>1, <3>1, <3>2 DEF MarkInv
  <2>5. QED
    BY <1>0, <1>1, <1>6, <2>3, <2>4, RunGoesOn DEF InRun, Going
<1>8. CASE Purged
  BY <1>0, <1>1, <1>2, <1>6, <1>8, RunGoesOn DEF InRun, Going
<1>9. QED
  BY <1>2, <1>7, <1>8

LEMMA CountData ==
  ASSUME DataGiven, Next, Ordered', CountGroup
  PROVE  DataInv'
<1>0. /\ TypeInv /\ OrderInv /\ DataInv /\ worker \in Workers /\ Runs
      /\ worker.pc = "count" /\ UNCHANGED <<batch, groups, fo, spent>>
      /\ worker.pc \in InRun /\ worker.pc \in Going
      /\ worker'.pc = "check" /\ worker'.at = worker.at
      /\ worker'.snap = worker.snap /\ worker'.created = worker.created
      /\ worker'.failed = worker.failed
  <2>1. TypeInv /\ OrderInv /\ DataInv /\ worker \in Workers /\ Runs
    BY DEF DataGiven, JournalInv, TypeInv, TypeOK, WorkerOK, Runs, Processor
  <2>2. worker.pc \in InRun /\ worker.pc \in Going
    BY DEF CountGroup, InRun, Going
  <2>3. QED
    BY <2>1, <2>2 DEF CountGroup, Goto, Workers
<1>1. /\ SnapInv' /\ (Purged \/ DoneInv)'
      /\ HeaderIds' = HeaderIds /\ Live' = Live /\ Created' = Created
      /\ \A g : (SnapDone(g)' <=> SnapDone(g)) /\ GroupOf(g)' = GroupOf(g)
      /\ \A h \in HeaderIds : (LeftBehind(h) => LeftBehind(h)') /\ (Full(h)' <=> Full(h))
  BY <1>0, RunKept
<1>2. /\ LoopInv /\ (Purged \/ MarkInv) /\ (Purged => Purged') /\ Created \subseteq HeaderIds
  BY <1>0, DataFrame, RunNumbers DEF DataInv
<1>3. \A g : (Handled(g)' <=> Handled(g))
  BY <1>0 DEF Handled, AfterGroup
<1>4. LoopInv'
  BY <1>0, <1>1, <1>2, <1>3 DEF LoopInv, AtGroup
<1>5. MarkInv => MarkInv'
  BY <1>0, <1>1 DEF MarkInv, AfterGroup
<1>6. QED
  BY <1>0, <1>1, <1>2, <1>4, <1>5, RunGoesOn DEF InRun, Going

(* The run opens a journal and posts its lines.                            *)
LEMMA RejectedData ==
  ASSUME DataGiven, Next, Ordered', CreateHeaderRejected \/ (PostLinesRejected /\ UNCHANGED fo)
  PROVE  DataInv'
<1>1. /\ TypeInv /\ OrderInv /\ DataInv /\ worker \in Workers /\ Runs
      /\ worker.pc \in {"open", "lines"} /\ UNCHANGED <<groups, fo>>
  BY DEF DataGiven, JournalInv, TypeInv, TypeOK, WorkerOK, Runs, PostGroup,
     CreateHeaderRejected, PostLinesRejected
<1>2. /\ worker'.pc = "caught" /\ worker'.snap = worker.snap
      /\ worker'.created = worker.created /\ worker'.failed = worker.failed
  BY <1>1 DEF CreateHeaderRejected, PostLinesRejected, Goto, Workers
<1>3. SnapInv' /\ (Purged \/ DoneInv)'
  BY <1>1, <1>2, RunKept DEF InRun, Going
<1>4. QED
  BY <1>1, <1>2, <1>3, RunGoesOn DEF InRun, Going

LEMMA ReuseData ==
  ASSUME DataGiven, Next, Ordered', ReuseHeader
  PROVE  DataInv'
<1> DEFINE key == worker.snap[worker.at].header
<1>0. /\ TypeInv /\ OrderInv /\ DataInv /\ worker \in Workers /\ Runs
      /\ worker.pc = "open" /\ UNCHANGED <<batch, groups, fo, spent>>
      /\ worker.pc \in InRun /\ worker.pc \in Going
      /\ worker'.pc = "lines" /\ worker'.at = worker.at /\ worker'.key = key
      /\ worker'.snap = worker.snap /\ worker'.created = Append(worker.created, key)
      /\ worker'.failed = worker.failed /\ key # NoHeader
  <2>1. TypeInv /\ OrderInv /\ DataInv /\ worker \in Workers /\ Runs
    BY DEF DataGiven, JournalInv, TypeInv, TypeOK, WorkerOK, Runs, PostGroup
  <2>2. worker.pc \in InRun /\ worker.pc \in Going
    BY DEF ReuseHeader, InRun, Going
  <2>3. QED
    BY <2>1, <2>2 DEF ReuseHeader, Workers
<1>1. /\ HeaderIds' = HeaderIds /\ Live' = Live
      /\ \A g : GroupOf(g)' = GroupOf(g) /\ (SnapDone(g)' <=> SnapDone(g))
      /\ \A g : (Handled(g)' <=> Handled(g))
      /\ \A h \in HeaderIds : (LeftBehind(h) => LeftBehind(h)') /\ (Full(h)' <=> Full(h))
  BY <1>0, AllJournalsStay DEF SnapDone, Handled, AfterGroup
<1>2. /\ LoopInv /\ SnapInv /\ (Purged \/ (DoneInv /\ MarkInv)) /\ (Purged => Purged')
      /\ ((Untouched)' <=> Untouched)
  BY <1>0, DataFrame DEF DataInv
<1>3. /\ Created \subseteq HeaderIds /\ Live \subseteq HeaderIds
      /\ \A h \in HeaderIds : GroupOf(h) \in Groups
      /\ Groups \subseteq Nat /\ worker.at \in Nat /\ worker.at \in Groups
      /\ \A h \in Created : GroupOf(h) < worker.at
      /\ \A g \in Groups : groups[g].header \in {NoHeader} \cup HeaderIds
      /\ \A g \in Groups : worker.snap[g].header \in {NoHeader} \cup HeaderIds
      /\ key \in HeaderIds /\ GroupOf(key) = worker.at
  <2>1. worker.at \in Groups
    BY <1>0 DEF TypeInv, WorkerPosition
  <2>2. key \in HeaderIds /\ GroupOf(key) = worker.at
    BY <1>0, <2>1, RunNumbers
  <2>3. QED
    BY <1>0, <2>1, <2>2, RunNumbers DEF OpensGroup
<1>4. Created' = Created \cup {key}
  BY <1>0, AppendsCreated DEF TypeInv
<1>5. ~SnapDone(worker.at) /\ LeftBehind(key) /\ ~Handled(worker.at)
  BY <1>0, <1>2, <1>3 DEF LoopInv, AtGroup, SnapInv, Handled, AfterGroup
<1>6. SnapInv'
  <2>1. \A g \in Groups : SnapDone(g) => worker.snap[g].header \in HeaderIds
    BY <1>2, <1>3 DEF SnapInv, Full
  <2>2. \A h \in Created' : ~SnapDone(GroupOf(h))
    BY <1>2, <1>3, <1>4, <1>5 DEF SnapInv
  <2>3. QED
    BY <1>0, <1>1, <1>2, <1>3, <1>4, <2>1, <2>2 DEF SnapInv
<1>7. LoopInv'
  <2>1. \A h \in Created' : h \in HeaderIds /\ (Handled(GroupOf(h)) => Full(h))
    BY <1>2, <1>3, <1>4, <1>5 DEF LoopInv
  <2>2. \A g \in Groups : Handled(g) => SnapDone(g) \/ \E h \in Created' : GroupOf(h) = g
    BY <1>2, <1>4 DEF LoopInv
  <2>3. fo'[worker'.key].kept
    BY <1>0, <1>5 DEF LeftBehind
  <2>4. QED
    BY <1>0, <1>1, <1>3, <1>4, <1>5, <2>1, <2>2, <2>3 DEF LoopInv
<1>8. DoneInv => DoneInv'
  BY <1>0, <1>1, <1>2, <1>3, <1>4 DEF DoneInv, Present
<1>9. ASSUME MarkInv PROVE MarkInv'
  <2>1. ASSUME NEW h \in Created'
        PROVE  /\ groups[GroupOf(h)].header = h
               /\ GroupOf(h) < worker.at => groups[GroupOf(h)].status = "completed"
    <3>1. CASE h \in Created
      BY <1>9, <3>1 DEF MarkInv
    <3>2. CASE h = key
      BY <1>0, <1>3, <1>9, <3>2 DEF MarkInv
    <3>3. QED
      BY <1>4, <3>1, <3>2
  <2>2. \A g \in Groups : g > worker.at => groups[g].header = worker.snap[g].header
    BY <1>9 DEF MarkInv
  <2>3. QED
    BY <1>0, <1>1, <2>1, <2>2 DEF MarkInv, AfterGroup
<1>10. QED
  BY <1>0, <1>2, <1>6, <1>7, <1>8, <1>9, RunGoesOn DEF InRun, Going

LEMMA RecordData ==
  ASSUME DataGiven, Next, Ordered', SetCreatedHeader
  PROVE  DataInv'
<1> DEFINE key == worker.key
<1>0. /\ TypeInv /\ OrderInv /\ DataInv /\ worker \in Workers /\ Runs
      /\ worker.pc = "record" /\ UNCHANGED <<batch, fo, spent>>
      /\ worker.pc \in InRun /\ worker.pc \in Going
      /\ worker'.pc = "lines" /\ worker'.at = worker.at /\ worker'.key = key
      /\ worker'.snap = worker.snap /\ worker'.created = Append(worker.created, key)
      /\ worker'.failed = worker.failed
  <2>1. TypeInv /\ OrderInv /\ DataInv /\ worker \in Workers /\ Runs
    BY DEF DataGiven, JournalInv, TypeInv, TypeOK, WorkerOK, Runs, PostGroup
  <2>2. worker.pc \in InRun /\ worker.pc \in Going
    BY DEF SetCreatedHeader, InRun, Going
  <2>3. QED
    BY <2>1, <2>2 DEF SetCreatedHeader, Workers
<1>1. /\ HeaderIds' = HeaderIds /\ Live' = Live
      /\ \A g : GroupOf(g)' = GroupOf(g) /\ (SnapDone(g)' <=> SnapDone(g))
      /\ \A g : (Handled(g)' <=> Handled(g))
      /\ \A h \in HeaderIds : (LeftBehind(h) => LeftBehind(h)') /\ (Full(h)' <=> Full(h))
  BY <1>0, AllJournalsStay DEF SnapDone, Handled, AfterGroup
<1>2. /\ LoopInv /\ SnapInv /\ (Purged \/ (DoneInv /\ MarkInv)) /\ (Purged => Purged')
      /\ ((Untouched)' <=> Untouched)
  BY <1>0, DataFrame DEF DataInv
<1>3. /\ Created \subseteq HeaderIds /\ Live \subseteq HeaderIds
      /\ \A h \in HeaderIds : GroupOf(h) \in Groups
      /\ Groups \subseteq Nat /\ worker.at \in Nat /\ worker.at \in Groups
      /\ \A h \in Created : GroupOf(h) < worker.at
      /\ groups \in [Groups -> GroupDocs]
      /\ \A g \in Groups : groups[g].header \in {NoHeader} \cup HeaderIds
      /\ \A g \in Groups : worker.snap[g].header \in {NoHeader} \cup HeaderIds
      /\ key \in HeaderIds /\ GroupOf(key) = worker.at
  <2>1. worker.at \in Groups /\ key \in HeaderIds
    BY <1>0 DEF TypeInv, WorkerPosition
  <2>2. GroupOf(key) = worker.at
    BY <1>0 DEF DataGiven, JournalInv, OwnJournals
  <2>3. QED
    BY <1>0, <2>1, <2>2, RunNumbers DEF OpensGroup
<1>4. Created' = Created \cup {key}
  BY <1>0, AppendsCreated DEF TypeInv
<1>5. /\ ~SnapDone(worker.at) /\ ~Handled(worker.at) /\ fo[key].lines = "none"
  BY <1>0, <1>2, <1>3 DEF LoopInv, AtGroup, Handled, AfterGroup
<1>6. SnapInv'
  <2>1. \A g \in Groups : SnapDone(g) => worker.snap[g].header \in HeaderIds
    BY <1>2, <1>3 DEF SnapInv, Full
  <2>2. \A h \in Created' : ~SnapDone(GroupOf(h))
    BY <1>2, <1>3, <1>4, <1>5 DEF SnapInv
  <2>3. QED
    BY <1>0, <1>1, <1>2, <1>3, <1>4, <2>1, <2>2 DEF SnapInv
<1>7. LoopInv'
  <2>1. \A h \in Created' : h \in HeaderIds /\ (Handled(GroupOf(h)) => Full(h))
    BY <1>2, <1>3, <1>4, <1>5 DEF LoopInv
  <2>2. \A g \in Groups : Handled(g) => SnapDone(g) \/ \E h \in Created' : GroupOf(h) = g
    BY <1>2, <1>4 DEF LoopInv
  <2>3. fo'[worker'.key].lines = "none"
    BY <1>0, <1>5
  <2>4. QED
    BY <1>0, <1>1, <1>3, <1>4, <1>5, <2>1, <2>2, <2>3 DEF LoopInv
<1>8. CASE DoneInv /\ MarkInv
  <2>1. /\ groups'[worker.at].header = key
        /\ groups'[worker.at].status = groups[worker.at].status
        /\ \A g \in Groups : g # worker.at => groups'[g] = groups[g]
    BY <1>3, <1>8 DEF SetCreatedHeader, SetGroup, DoneInv, Present, GroupDocs
  <2>2. DoneInv'
    BY <1>0, <1>1, <1>3, <1>4, <1>5, <1>8, <2>1 DEF DoneInv, Present
  <2>3. ASSUME NEW h \in Created'
        PROVE  /\ groups'[GroupOf(h)].header = h
               /\ GroupOf(h) < worker.at => groups'[GroupOf(h)].status = "completed"
    <3>1. CASE h \in Created
      <4>1. GroupOf(h) \in Groups /\ GroupOf(h) \in Nat /\ GroupOf(h) < worker.at
        BY <1>3, <3>1
      <4>2. groups'[GroupOf(h)] = groups[GroupOf(h)]
        BY <1>3, <2>1, <4>1
      <4>3. QED
        BY <1>8, <3>1, <4>1, <4>2 DEF MarkInv
    <3>2. CASE h = key
      BY <1>3, <2>1, <3>2
    <3>3. QED
      BY <1>4, <3>1, <3>2
  <2>4. \A g \in Groups : g > worker.at => groups'[g].header = worker.snap[g].header
    BY <1>3, <1>8, <2>1 DEF MarkInv
  <2>5. MarkInv'
    BY <1>0, <1>1, <2>3, <2>4 DEF MarkInv, AfterGroup
  <2>6. QED
    BY <1>0, <1>6, <1>7, <2>2, <2>5, RunGoesOn DEF InRun, Going
<1>9. CASE Purged
  BY <1>0, <1>2, <1>6, <1>7, <1>9, RunGoesOn DEF InRun, Going
<1>10. QED
  BY <1>2, <1>8, <1>9

LEMMA CreateData ==
  ASSUME DataGiven, Next, Ordered', CreateHeader
  PROVE  DataInv'
<1> DEFINE key == Len(fo) + 1
<1>0. /\ TypeInv /\ OrderInv /\ DataInv /\ worker \in Workers /\ Runs
      /\ worker.pc = "open" /\ UNCHANGED <<batch, groups, spent>>
      /\ worker.pc \in InRun /\ worker.pc \in Going
      /\ worker'.pc = "record" /\ worker'.at = worker.at /\ worker'.key = key
      /\ worker'.snap = worker.snap /\ worker'.created = worker.created
      /\ worker'.failed = worker.failed
      /\ fo' = Append(fo, NewJournal(worker.at))
  <2>1. TypeInv /\ OrderInv /\ DataInv /\ worker \in Workers /\ Runs
    BY DEF DataGiven, JournalInv, TypeInv, TypeOK, WorkerOK, Runs, PostGroup
  <2>2. worker.pc \in InRun /\ worker.pc \in Going
    BY DEF CreateHeader, InRun, Going
  <2>3. QED
    BY <2>1, <2>2 DEF CreateHeader, Workers
<1>1. /\ LoopInv /\ SnapInv /\ (Purged \/ (DoneInv /\ MarkInv)) /\ (Purged => Purged')
      /\ ((Untouched)' <=> Untouched)
  BY <1>0, DataFrame DEF DataInv
<1>2. /\ Created \subseteq HeaderIds /\ Live \subseteq HeaderIds
      /\ \A h \in HeaderIds : GroupOf(h) \in Groups
      /\ \A g \in Groups : groups[g].header \in {NoHeader} \cup HeaderIds
      /\ \A g \in Groups : worker.snap[g].header \in {NoHeader} \cup HeaderIds
      /\ fo \in Seq(Journals) /\ Len(fo) \in Nat
  BY RunNumbers
<1>3. /\ HeaderIds' = HeaderIds \cup {key} /\ fo'[key] = NewJournal(worker.at)
      /\ \A h \in HeaderIds : fo'[h] = fo[h]
  BY <1>0, <1>2 DEF HeaderIds
<1>4. /\ Live' = Live \cup {key}
      /\ \A h \in HeaderIds : /\ GroupOf(h)' = GroupOf(h)
                             /\ (LeftBehind(h) => LeftBehind(h)') /\ (Full(h)' <=> Full(h))
  <2>1. \A h \in HeaderIds : /\ GroupOf(h)' = GroupOf(h) /\ (h \in Live' <=> h \in Live)
                            /\ (LeftBehind(h) => LeftBehind(h)') /\ (Full(h)' <=> Full(h))
    BY <1>0, <1>3, JournalStays DEF GroupOf
  <2>2. key \in Live' /\ Live' \subseteq HeaderIds \cup {key}
    BY <1>3 DEF Live, NewJournal
  <2>3. QED
    BY <1>2, <2>1, <2>2
<1>5. /\ Created' = Created /\ \A g : (SnapDone(g)' <=> SnapDone(g))
      /\ \A g : (Handled(g)' <=> Handled(g))
  BY <1>0 DEF Created, SnapDone, Handled, AfterGroup
<1>6. \A g \in Groups : SnapDone(g) => worker.snap[g].header \in HeaderIds
  BY <1>1, <1>2 DEF SnapInv, Full
<1>7. SnapInv'
  <2>1. \A h \in worker.failed : h \in HeaderIds /\ fo[h].kept
    BY <1>1, <1>2 DEF SnapInv
  <2>2. \A h \in worker'.failed : h \in Created' /\ fo'[h].kept
    BY <1>0, <1>1, <1>3, <1>5, <2>1 DEF SnapInv
  <2>3. \A h \in Created' : ~SnapDone(GroupOf(h))'
    <3>1. \A h \in Created : ~SnapDone(GroupOf(h)) /\ GroupOf(h)' = GroupOf(h)
      BY <1>1, <1>2, <1>4 DEF SnapInv
    <3>2. QED
      BY <1>0, <1>5, <3>1 DEF SnapDone
  <2>4. \A g \in Groups : ~SnapDone(g)' /\ worker'.snap[g].header # NoHeader
            => LeftBehind(worker.snap[g].header)'
    BY <1>0, <1>1, <1>2, <1>4, <1>5 DEF SnapInv
  <2>5. \A h \in Live' : \/ LeftBehind(h)' \/ h \in Created'
                         \/ h = worker'.key
                         \/ \E g \in Groups : SnapDone(g)' /\ h = worker'.snap[g].header
    BY <1>0, <1>1, <1>2, <1>4, <1>5 DEF SnapInv
  <2>6. QED
    BY <1>0, <1>1, <1>4, <1>5, <1>6, <2>2, <2>3, <2>4, <2>5 DEF SnapInv
<1>8. LoopInv'
  <2>1. \A h \in Created' : Handled(GroupOf(h))' => Full(h)'
    <3>1. \A h \in Created : /\ (Handled(GroupOf(h)) => Full(h)') /\ GroupOf(h)' = GroupOf(h)
      BY <1>1, <1>2, <1>4 DEF LoopInv
    <3>2. QED
      BY <1>0, <1>5, <3>1 DEF Handled, AfterGroup
  <2>2. \A g \in Groups : Handled(g)' => SnapDone(g)' \/ \E h \in Created' : GroupOf(h)' = g
    <3>1. \A h \in Created : GroupOf(h)' = GroupOf(h)
      BY <1>2, <1>4
    <3>2. QED
      BY <1>1, <1>5, <3>1 DEF LoopInv
  <2>3. ~SnapDone(worker.at)
    BY <1>0, <1>1 DEF LoopInv, AtGroup
  <2>4. QED
    BY <1>0, <1>3, <1>5, <2>1, <2>2, <2>3 DEF LoopInv, NewJournal
<1>9. DoneInv => DoneInv'
  BY <1>0, <1>2, <1>4, <1>5 DEF DoneInv, Present
<1>10. MarkInv => MarkInv'
  <2>1. \A h \in Created : GroupOf(h)' = GroupOf(h)
    BY <1>2, <1>4
  <2>2. QED
    BY <1>0, <1>5, <2>1 DEF MarkInv, AfterGroup
<1>11. QED
  BY <1>0, <1>1, <1>7, <1>8, <1>9, <1>10, RunGoesOn DEF InRun, Going

(* The run writes to, or deletes, one of its own journals.                 *)
LEMMA OwnJournalEdited ==
  ASSUME DataGiven, Next, Ordered', Runs, UNCHANGED <<batch, groups, spent>>,
         NEW e \in Created, NEW doc, fo' = [fo EXCEPT ![e] = doc],
         doc.group = fo[e].group, doc.live => fo[e].live, fo[e].kept => doc.kept,
         worker'.snap = worker.snap, worker'.created = worker.created,
         \A h \in worker'.failed : h \in worker.failed \/ (h = e /\ doc.kept),
         worker.pc \in InRun \ {"record"}, worker'.pc \in InRun \ {"record", "reset"}
  PROVE  /\ SnapInv' /\ (Purged \/ DoneInv)'
         /\ e \in HeaderIds /\ fo'[e] = doc
         /\ HeaderIds' = HeaderIds /\ Live' \subseteq Live /\ Created' = Created
         /\ \A g : SnapDone(g)' <=> SnapDone(g)
         /\ \A h \in HeaderIds : GroupOf(h)' = GroupOf(h)
         /\ \A h \in HeaderIds : h # e => (Full(h) => Full(h)')
         /\ \A h \in HeaderIds : LeftBehind(h) => LeftBehind(h)'
<1>1. /\ TypeInv /\ OrderInv /\ DataInv /\ SnapInv /\ (Purged \/ DoneInv)
      /\ (Purged => Purged') /\ ((Untouched)' <=> Untouched)
  BY DataFrame DEF DataGiven, JournalInv, DataInv
<1>2. /\ Created \subseteq HeaderIds /\ Live \subseteq HeaderIds
      /\ \A h \in HeaderIds : GroupOf(h) \in Groups
      /\ \A g \in Groups : groups[g].header \in {NoHeader} \cup HeaderIds
      /\ \A g \in Groups : worker.snap[g].header \in {NoHeader} \cup HeaderIds
      /\ fo \in Seq(Journals)
      /\ \A g \in Groups :
           worker.snap[g].header # NoHeader => GroupOf(worker.snap[g].header) = g
  BY RunNumbers
<1>3. /\ HeaderIds' = HeaderIds /\ e \in HeaderIds /\ fo'[e] = doc
      /\ \A h \in HeaderIds : h # e => fo'[h] = fo[h]
  BY <1>2 DEF HeaderIds
<1>4. /\ \A h \in HeaderIds : GroupOf(h)' = GroupOf(h)
      /\ \A h \in HeaderIds : fo[h].kept => fo'[h].kept
      /\ \A h \in HeaderIds : LeftBehind(h) => LeftBehind(h)'
      /\ Live' \subseteq Live
      /\ \A h \in HeaderIds : h # e => (Full(h) => Full(h)')
  BY <1>3 DEF GroupOf, LeftBehind, Live, Full
<1>5. Created' = Created /\ \A g : (SnapDone(g)' <=> SnapDone(g))
  BY DEF Created, SnapDone
<1>6. \A g \in Groups : SnapDone(g) => /\ worker.snap[g].header \in HeaderIds
                                      /\ worker.snap[g].header # e
                                      /\ Full(worker.snap[g].header)
  <2>1. \A g \in Groups : SnapDone(g) => /\ Full(worker.snap[g].header)
                                        /\ worker.snap[g].header \in HeaderIds
    BY <1>1, <1>2 DEF SnapInv, Full
  <2>2. ~SnapDone(GroupOf(e))
    BY <1>1 DEF SnapInv
  <2>3. NoHeader \notin HeaderIds
    BY DEF NoHeader, HeaderIds
  <2>4. QED
    BY <1>2, <2>1, <2>2, <2>3
<1>7. SnapInv'
  <2>1. \A h \in worker.failed : h \in Created /\ h \in HeaderIds /\ fo[h].kept
    BY <1>1, <1>2 DEF SnapInv
  <2>2. \A h \in worker'.failed : h \in Created' /\ fo'[h].kept
    BY <1>3, <1>4, <1>5, <2>1
  <2>3. \A h \in Created' : ~SnapDone(GroupOf(h))'
    <3>1. \A h \in Created : ~SnapDone(GroupOf(h)) /\ GroupOf(h)' = GroupOf(h)
      BY <1>1, <1>2, <1>4 DEF SnapInv
    <3>2. QED
      BY <1>5, <3>1 DEF SnapDone
  <2>4. \A g \in Groups : ~SnapDone(g)' /\ worker'.snap[g].header # NoHeader
            => LeftBehind(worker.snap[g].header)'
    BY <1>1, <1>2, <1>4, <1>5 DEF SnapInv
  <2>5. \A h \in Live' : \/ LeftBehind(h)' \/ h \in Created'
                         \/ \E g \in Groups : SnapDone(g)' /\ h = worker'.snap[g].header
    BY <1>1, <1>2, <1>4, <1>5 DEF SnapInv
  <2>6. QED
    BY <1>1, <1>4, <1>5, <1>6, <2>2, <2>3, <2>4, <2>5 DEF SnapInv
<1>8. DoneInv => DoneInv'
  BY <1>2, <1>4, <1>5 DEF DoneInv, Present
<1>9. QED
  BY <1>1, <1>3, <1>4, <1>5, <1>7, <1>8

LEMMA LinesData ==
  ASSUME DataGiven, Next, Ordered', PostLines
  PROVE  DataInv'
<1> DEFINE key == worker.key
           doc == [fo[key] EXCEPT !.lines = IF fo[key].lines = "none" THEN "full" ELSE "extra"]
<1>0. /\ TypeInv /\ OrderInv /\ DataInv /\ worker \in Workers /\ Runs
      /\ worker.pc = "lines" /\ UNCHANGED <<batch, groups, spent>>
      /\ worker.pc \in InRun \ {"record"} /\ worker.pc \in Going
      /\ worker'.pc = "complete" /\ worker'.at = worker.at
      /\ worker'.snap = worker.snap /\ worker'.created = worker.created
      /\ worker'.failed = worker.failed /\ worker'.key = key /\ fo[key].live
  <2>1. TypeInv /\ OrderInv /\ DataInv /\ worker \in Workers /\ Runs
    BY DEF DataGiven, JournalInv, TypeInv, TypeOK, WorkerOK, Runs, PostGroup
  <2>2. worker.pc \in InRun \ {"record"} /\ worker.pc \in Going
    BY DEF PostLines, InRun, Going
  <2>3. QED
    BY <2>1, <2>2 DEF PostLines, Goto, Workers
<1>1. /\ LoopInv /\ (Purged \/ MarkInv) /\ (Purged => Purged')
  BY <1>0, DataFrame DEF DataInv
<1>2. /\ key \in Created /\ GroupOf(key) = worker.at /\ ~SnapDone(worker.at)
      /\ fo[key].lines = "none" \/ fo[key].kept
  BY <1>0, <1>1 DEF LoopInv, AtGroup
<1>3. /\ Created \subseteq HeaderIds /\ \A h \in HeaderIds : GroupOf(h) \in Groups
      /\ Groups \subseteq Nat /\ worker.at \in Nat
      /\ \A h \in HeaderIds : fo[h] \in Journals
      /\ \A h, k \in Created : GroupOf(h) = GroupOf(k) => h = k
      /\ \A h \in Created : GroupOf(h) <= worker.at
  BY RunNumbers
<1>4. /\ fo' = [fo EXCEPT ![key] = doc]
      /\ doc.group = fo[key].group /\ doc.live = fo[key].live /\ doc.kept = fo[key].kept
      /\ doc.lines = "full" \/ (doc.lines = "extra" /\ doc.kept)
  BY <1>2, <1>3 DEF PostLines, Journals
<1>5. /\ SnapInv' /\ (Purged \/ DoneInv)'
      /\ fo'[key] = doc /\ key \in HeaderIds
      /\ HeaderIds' = HeaderIds /\ Created' = Created
      /\ \A g : SnapDone(g)' <=> SnapDone(g)
      /\ \A h \in HeaderIds : GroupOf(h)' = GroupOf(h)
      /\ \A h \in HeaderIds : h # key => (Full(h) => Full(h)')
  BY <1>0, <1>2, <1>4, OwnJournalEdited DEF InRun, Going
<1>6. Full(key)'
  <2>1. fo'[key].live /\ (fo'[key].lines = "full" \/ (fo'[key].lines = "extra" /\ fo'[key].kept))
    BY <1>0, <1>4, <1>5
  <2>2. key \in HeaderIds' /\ worker'.key = key
    BY <1>0, <1>5
  <2>3. QED
    BY <2>1, <2>2 DEF Full, Live
<1>7. LoopInv'
  <2>1. ASSUME NEW h \in Created'
        PROVE  Full(h)'
    <3>1. CASE h = key
      BY <1>0, <1>6, <3>1 DEF Full
    <3>2. CASE h # key
      <4>1. h \in Created /\ h \in HeaderIds /\ GroupOf(h) \in Nat /\ GroupOf(h) <= worker.at
        BY <1>3, <1>5
      <4>2. GroupOf(h) < worker.at
        BY <1>2, <1>3, <3>2, <4>1
      <4>3. Full(h)
        BY <1>1, <4>1, <4>2 DEF LoopInv, Handled
      <4>4. QED
        BY <1>5, <3>2, <4>1, <4>3
    <3>3. QED
      BY <3>1, <3>2
  <2>2. \A g \in Groups : Handled(g)' => SnapDone(g)' \/ \E h \in Created' : GroupOf(h)' = g
    <3>1. \A h \in Created : GroupOf(h)' = GroupOf(h)
      BY <1>3, <1>5
    <3>2. \A g \in Groups : Handled(g)' => Handled(g) \/ g = worker.at
      BY <1>0 DEF Handled
    <3>3. QED
      BY <1>1, <1>2, <1>5, <3>1, <3>2 DEF LoopInv
  <2>3. QED
    BY <1>0, <1>2, <1>5, <2>1, <2>2 DEF LoopInv
<1>8. MarkInv => MarkInv'
  <2>1. \A h \in Created : GroupOf(h)' = GroupOf(h)
    BY <1>3, <1>5
  <2>2. QED
    BY <1>0, <1>5, <2>1 DEF MarkInv, AfterGroup
<1>9. QED
  BY <1>0, <1>1, <1>5, <1>7, <1>8, RunGoesOn DEF InRun, Going

(* The steps that write to, or delete, one of the run's own journals while *)
(* it is being rolled back, or leave it half written.                      *)
LEMMA UndoData ==
  ASSUME DataGiven, Next, Ordered',
         \/ PostLinesRejected /\ ~UNCHANGED fo
         \/ RollbackLines \/ RollbackHeader \/ RetainHeader
  PROVE  DataInv'
<1>0. /\ TypeInv /\ OrderInv /\ DataInv /\ worker \in Workers /\ Runs
      /\ UNCHANGED <<batch, groups, spent>>
      /\ worker.pc \in {"lines", "rollback"}
      /\ worker.pc \in InRun \ {"record"}
  <2>1. TypeInv /\ OrderInv /\ DataInv /\ worker \in Workers /\ Runs
    BY DEF DataGiven, JournalInv, TypeInv, TypeOK, WorkerOK, Runs, PostGroup, RollBack
  <2>2. worker.pc \in {"lines", "rollback"} /\ UNCHANGED <<batch, groups, spent>>
    BY DEF PostLinesRejected, RollbackLines, RollbackHeader, RetainHeader
  <2>3. QED
    BY <2>1, <2>2 DEF InRun, Going
<1>1. /\ Created \subseteq HeaderIds /\ \A h \in HeaderIds : fo[h] \in Journals
      /\ worker.created \in Seq(HeaderIds) /\ worker.undo \in Nat
      /\ fo \in Seq(Journals)
  BY <1>0, RunNumbers DEF Workers
<1>2. worker.pc = "rollback" /\ worker.undo > 0 => worker.created[worker.undo] \in Created
  BY <1>0, <1>1 DEF Created, TypeInv, WorkerPosition
<1>3. worker.pc = "lines" => worker.key \in Created
  BY <1>0 DEF DataInv, LoopInv, Going
(* One of its journals becomes doc, and may join those that stay.          *)
<1>4. \E e \in Created : \E doc \in Journals :
        /\ fo' = [fo EXCEPT ![e] = doc]
        /\ doc.group = fo[e].group /\ (doc.live => fo[e].live)
        /\ (fo[e].kept => doc.kept)
        /\ worker'.snap = worker.snap /\ worker'.created = worker.created
        /\ \A h \in worker'.failed : h \in worker.failed \/ (h = e /\ doc.kept)
        /\ worker'.pc \in {"caught", "rollback"}
  <2>1. CASE PostLinesRejected /\ ~UNCHANGED fo
    <3> DEFINE e == worker.key
    <3>1. PICK written \in {"partial", "full"} :
            fo' = [fo EXCEPT ![e].lines =
                      IF fo[worker.key].lines = "none" THEN written ELSE "extra"]
      BY <2>1 DEF PostLinesRejected
    <3>2. /\ e \in Created /\ fo[e] \in Journals
          /\ worker'.snap = worker.snap /\ worker'.created = worker.created
          /\ worker'.failed = worker.failed /\ worker'.pc = "caught"
      BY <1>0, <1>1, <1>3, <2>1 DEF PostLinesRejected, Goto, Workers
    <3> DEFINE doc == [fo[e] EXCEPT !.lines =
                         IF fo[e].lines = "none" THEN written ELSE "extra"]
    <3>3. /\ doc \in Journals /\ doc.group = fo[e].group /\ doc.live = fo[e].live
          /\ doc.kept = fo[e].kept /\ fo' = [fo EXCEPT ![e] = doc]
      BY <1>1, <3>1, <3>2 DEF Journals, Lines
    <3>4. QED
      BY <3>2, <3>3
  <2>2. CASE RollbackLines
    <3> DEFINE e == worker.created[worker.undo]
    <3>1. PICK left \in {"none", "partial"} : fo' = [fo EXCEPT ![e].lines = left]
      BY <2>2 DEF RollbackLines
    <3>2. /\ e \in Created /\ fo[e] \in Journals
          /\ UNCHANGED worker /\ worker.pc = "rollback"
      BY <1>1, <1>2, <2>2 DEF RollbackLines
    <3> DEFINE doc == [fo[e] EXCEPT !.lines = left]
    <3>3. /\ doc \in Journals /\ doc.group = fo[e].group /\ doc.live = fo[e].live
          /\ doc.kept = fo[e].kept /\ fo' = [fo EXCEPT ![e] = doc]
      BY <1>1, <3>1, <3>2 DEF Journals, Lines
    <3>4. QED
      BY <3>2, <3>3
  <2>3. CASE RollbackHeader
    <3> DEFINE e == worker.created[worker.undo]
               doc == [fo[e] EXCEPT !.live = FALSE]
    <3>1. /\ e \in Created /\ fo[e] \in Journals
          /\ worker'.snap = worker.snap /\ worker'.created = worker.created
          /\ worker'.failed = worker.failed /\ worker'.pc = "rollback"
      BY <1>0, <1>1, <1>2, <2>3 DEF RollbackHeader, Workers
    <3>2. /\ doc \in Journals /\ doc.group = fo[e].group /\ ~doc.live
          /\ doc.kept = fo[e].kept /\ fo' = [fo EXCEPT ![e] = doc]
      BY <2>3, <3>1 DEF Journals, RollbackHeader
    <3>3. QED
      BY <3>1, <3>2
  <2>4. CASE RetainHeader
    <3> DEFINE e == worker.created[worker.undo]
               doc == [fo[e] EXCEPT !.kept = TRUE]
    <3>1. /\ e \in Created /\ fo[e] \in Journals
          /\ worker'.snap = worker.snap /\ worker'.created = worker.created
          /\ worker'.failed = worker.failed \cup {e} /\ worker'.pc = "rollback"
      BY <1>0, <1>1, <1>2, <2>4 DEF RetainHeader, Workers
    <3>2. /\ doc \in Journals /\ doc.group = fo[e].group /\ doc.live = fo[e].live
          /\ doc.kept /\ fo' = [fo EXCEPT ![e] = doc]
      BY <2>4, <3>1 DEF Journals, RetainHeader
    <3>3. QED
      BY <3>1, <3>2
  <2>5. QED
    BY <2>1, <2>2, <2>3, <2>4
<1>5. PICK e \in Created, doc \in Journals :
        /\ fo' = [fo EXCEPT ![e] = doc]
        /\ doc.group = fo[e].group /\ (doc.live => fo[e].live)
        /\ (fo[e].kept => doc.kept)
        /\ worker'.snap = worker.snap /\ worker'.created = worker.created
        /\ \A h \in worker'.failed : h \in worker.failed \/ (h = e /\ doc.kept)
        /\ worker'.pc \in {"caught", "rollback"}
  BY <1>4
<1>6. worker'.pc \in InRun \ {"record", "reset"} /\ worker'.pc \notin Going
  BY <1>5 DEF InRun, Going
<1>7. SnapInv' /\ (Purged \/ DoneInv)'
  BY <1>0, <1>5, <1>6, OwnJournalEdited
<1>8. QED
  BY <1>0, <1>6, <1>7, RunGoesOn

(* What a run leaves when every journal of it is complete and its group    *)
(* completed.                                                              *)
LEMMA LeavesRest ==
  ASSUME DataGiven, SnapInv, Purged \/ DoneInv, worker.pc # "record",
         ~Untouched \/ Created = {},
         \A h \in Created : /\ Full(h)
                            /\ \/ Purged
                               \/ /\ groups[GroupOf(h)].header = h
                                  /\ groups[GroupOf(h)].status = "completed"
  PROVE  RestInv
<1>1. /\ Created \subseteq HeaderIds /\ \A h \in HeaderIds : GroupOf(h) \in Groups
  BY RunNumbers
<1>2. CASE Purged
  <2>1. \A g \in Groups : groups[g] = Absent
    BY <1>2 DEF Purged, NoGroups
  <2>2. QED
    BY <1>2, <2>1 DEF RestInv, Absent, CompletedGroups
<1>3. CASE DoneInv /\ ~Purged
  <2>1. ASSUME NEW h \in Live
        PROVE  \/ LeftBehind(h)
               \/ \E g \in Groups : groups[g].status = "completed" /\ groups[g].header = h
    <3>1. CASE h \in Created
      <4>1. GroupOf(h) \in Groups
        BY <1>1, <3>1
      <4>2. QED
        BY <1>3, <3>1, <4>1
    <3>2. CASE \E g \in Groups : SnapDone(g) /\ h = worker.snap[g].header
      BY <1>3, <3>2 DEF DoneInv, SnapDone
    <3>3. QED
      BY <3>1, <3>2 DEF SnapInv
  <2>2. ASSUME NEW g \in Groups, groups[g].status = "completed"
        PROVE  Full(groups[g].header)
    BY <1>3, <2>2 DEF DoneInv, SnapInv
  <2>3. ASSUME NEW g \in Groups, groups[g].status # "completed", groups[g].header # NoHeader
        PROVE  LeftBehind(groups[g].header)
    <3>1. ~SnapDone(g)
      BY <1>3, <2>3 DEF DoneInv, SnapDone
    <3>2. CASE groups[g].header \in Created
      <4>1. GroupOf(groups[g].header) = g
        BY <2>3, RunNumbers
      <4>2. QED
        BY <1>3, <2>3, <3>2, <4>1
    <3>3. QED
      BY <1>3, <2>3, <3>1, <3>2 DEF DoneInv
  <2>4. Untouched => CompletedGroups = {}
    BY <1>3 DEF DoneInv, SnapInv, CompletedGroups
  <2>5. QED
    BY <2>1, <2>2, <2>3, <2>4 DEF RestInv
<1>4. QED
  BY <1>2, <1>3

(* A step that leaves the run with RestInv.                                *)
LEMMA RunStops ==
  ASSUME DataGiven, Next, Ordered', Runs, UNCHANGED <<fo, groups>>, RestInv,
         worker'.pc \notin InRun \cup {"start", "list"},
         batch'.status # "Posted"
  PROVE  DataInv'
<1>1. TypeInv /\ OrderInv /\ DataInv
  BY DEF DataGiven, JournalInv
<1>2. (groups = NoGroups \/ Present)' /\ AskedInv' /\ (Purged => Purged')
      /\ ((Untouched)' <=> Untouched)
  BY <1>1, DataFrame
<1>3. RestInv'
  BY <1>1, <1>2, RestStays
<1>4. QED
  BY <1>2, <1>3 DEF DataInv, InRun, Going

LEMMA StartRollbackData ==
  ASSUME DataGiven, Next, Ordered', StartRollback
  PROVE  DataInv'
<1>0. /\ TypeInv /\ OrderInv /\ DataInv /\ worker \in Workers /\ Runs
      /\ worker.pc = "caught" /\ UNCHANGED <<batch, groups, fo, spent>>
      /\ worker'.snap = worker.snap /\ worker'.created = worker.created
      /\ worker'.failed = worker.failed
      /\ worker'.pc = IF worker.created = <<>> THEN "fail" ELSE "rollback"
  BY DEF DataGiven, JournalInv, TypeInv, TypeOK, WorkerOK, Runs, RollBack, StartRollback, Workers
<1>1. SnapInv /\ (Purged \/ DoneInv)
  BY <1>0 DEF DataInv, InRun
<1>2. batch.status # "Posted"
  BY <1>0 DEF OrderInv, StatusInv
<1>3. CASE worker.created = <<>>
  <2>1. Created = {}
    BY <1>3 DEF Created
  <2>2. RestInv
    BY <1>0, <1>1, <2>1, LeavesRest
  <2>3. QED
    BY <1>0, <1>2, <1>3, <2>2, RunStops DEF InRun, Going
<1>4. CASE worker.created # <<>>
  <2>1. SnapInv' /\ (Purged \/ DoneInv)'
    BY <1>0, <1>4, RunKept DEF InRun
  <2>2. QED
    BY <1>0, <1>4, <2>1, RunGoesOn DEF InRun, Going
<1>5. QED
  BY <1>3, <1>4

LEMMA RollbackDoneData ==
  ASSUME DataGiven, Next, Ordered', RollbackDone \/ KeepRetainedIds
  PROVE  DataInv'
<1>0. /\ TypeInv /\ OrderInv /\ DataInv /\ worker \in Workers /\ Runs
      /\ worker.pc \in {"rollback", "keepIds"} /\ UNCHANGED <<groups, fo>>
      /\ worker'.snap = worker.snap /\ worker'.created = worker.created
      /\ worker'.failed = worker.failed
      /\ worker'.pc \in {"reset", "keepIds"}
      /\ batch \in [exists : BOOLEAN, status : BatchStatus, paused : BOOLEAN,
                    dfoIds : SUBSET HeaderIds]
  BY DEF DataGiven, JournalInv, TypeInv, TypeOK, WorkerOK, BatchOK, Runs, RollBack, RollbackDone,
     KeepRetainedIds, Goto, Workers
<1>1. worker'.pc = "reset" => \A h \in worker.failed : LeftBehind(h)'
  <2>1. CASE RollbackDone
    BY <1>0, <2>1 DEF RollbackDone, Goto, Workers
  <2>2. CASE KeepRetainedIds
    <3>1. batch'.exists => worker.failed \subseteq batch'.dfoIds
      BY <1>0, <2>2 DEF KeepRetainedIds, AddDfoIds
    <3>2. \A h \in worker.failed : fo[h].kept
      BY <1>0 DEF DataInv, SnapInv, InRun
    <3>3. QED
      BY <1>0, <3>1, <3>2 DEF LeftBehind
  <2>3. QED
    BY <2>1, <2>2
<1>2. SnapInv' /\ (Purged \/ DoneInv)'
  BY <1>0, <1>1, RunKept DEF InRun
<1>3. QED
  BY <1>0, <1>2, RunGoesOn DEF InRun, Going

(* The rollback is over: what the run wrote is gone or left behind, and    *)
(* only the groups that were completed before it still are.                *)
LEMMA ResetData ==
  ASSUME DataGiven, Next, Ordered', ResetGroups
  PROVE  DataInv'
<1> DEFINE cleared == Created \ worker.failed
           after(g) == AfterRollback(groups[g], cleared, worker.failed)
<1>0. /\ TypeInv /\ OrderInv /\ DataInv /\ worker \in Workers /\ Runs
      /\ worker.pc = "reset" /\ UNCHANGED <<batch, fo, spent>> /\ worker'.pc = "fail"
      /\ groups' = [g \in Groups |-> IF groups[g].status = "absent" THEN groups[g] ELSE after(g)]
  BY DEF DataGiven, JournalInv, TypeInv, TypeOK, WorkerOK, Runs, RollBack, ResetGroups, Goto,
     Workers, resetAfterRollback
<1>1. /\ SnapInv /\ (Purged \/ DoneInv) /\ batch.status # "Posted"
  BY <1>0 DEF DataInv, InRun, OrderInv, StatusInv
<1>2. /\ (groups = NoGroups \/ Present)' /\ AskedInv' /\ (Purged => Purged')
      /\ ((Untouched)' <=> Untouched)
  BY <1>0, DataFrame
<1>3. /\ HeaderIds' = HeaderIds /\ Live' = Live
      /\ \A h \in HeaderIds : (LeftBehind(h) => LeftBehind(h)') /\ (Full(h)' <=> Full(h))
  BY <1>0, AllJournalsStay
<1>4. /\ Created \subseteq HeaderIds /\ Live \subseteq HeaderIds
      /\ \A h \in HeaderIds : GroupOf(h) \in Groups
      /\ groups \in [Groups -> GroupDocs]
      /\ \A g \in Groups : groups[g].header \in {NoHeader} \cup HeaderIds
      /\ NoHeader \notin HeaderIds
  BY RunNumbers DEF NoHeader, HeaderIds
<1>5. /\ \A h \in worker.failed : h \in Created /\ LeftBehind(h)
      /\ \A h \in Created : h \in Live => h \in worker.failed
  <2>1. \A h \in worker.failed : h \in Created /\ LeftBehind(h)
    BY <1>0, <1>1 DEF SnapInv
  <2>2. \A h \in Created : Undone(h)
    BY <1>0 DEF DataGiven, RollbackInv, Created
  <2>3. QED
    BY <2>1, <2>2 DEF Undone, Live
<1>6. CASE Purged
  <2>1. Purged' /\ \A g \in Groups : groups'[g] = Absent
    BY <1>2, <1>6 DEF Purged, NoGroups
  <2>2. RestInv'
    BY <2>1 DEF RestInv, Absent, CompletedGroups
  <2>3. QED
    BY <1>0, <1>1, <1>2, <2>2 DEF DataInv, InRun, Going
<1>7. CASE DoneInv
(* The groups of this run are put back, or left active; the others stay.   *)
  <2>1. ASSUME NEW g \in Groups
        PROVE  /\ groups[g].header \in cleared => groups'[g] = Pending
               /\ groups[g].header \in worker.failed =>
                    groups'[g].status # "completed" /\ groups'[g].header \in {NoHeader, groups[g].header}
               /\ groups[g].header \notin Created =>
                    \/ groups'[g] = groups[g]
                    \/ groups[g].status # "completed" /\ groups'[g] = Pending
    <3>1. groups'[g] = after(g)
      BY <1>0, <1>7 DEF DoneInv, Present
    <3>2. groups[g] \in GroupDocs
      BY <1>4
    <3>3. QED
      BY <1>5, <3>1, <3>2 DEF AfterRollback, Pending, GroupDocs
  <2>2. ASSUME NEW g \in Groups, SnapDone(g)
        PROVE  /\ groups'[g] = groups[g] /\ groups[g] = worker.snap[g]
               /\ groups[g].status = "completed" /\ Full(groups[g].header)
               /\ groups[g].header \in HeaderIds
    <3>1. /\ groups[g] = worker.snap[g] /\ groups[g].status = "completed"
          /\ Full(groups[g].header) /\ groups[g].header \in HeaderIds
      BY <1>1, <1>4, <1>7, <2>2 DEF DoneInv, SnapInv, SnapDone, Full
    <3>2. GroupOf(groups[g].header) = g
      BY <1>4, <3>1, RunNumbers
    <3>3. groups[g].header \notin Created
      BY <1>1, <2>2, <3>2 DEF SnapInv
    <3>4. QED
      BY <2>1, <3>1, <3>3
  <2>3. ASSUME NEW g \in Groups, groups'[g].status = "completed"
        PROVE  SnapDone(g)
    <3>1. groups[g].header \notin Created
      BY <1>5, <2>1, <2>3 DEF Pending
    <3>2. groups[g].status = "completed"
      BY <2>1, <2>3, <3>1 DEF Pending
    <3>3. QED
      BY <1>7, <3>1, <3>2 DEF DoneInv
  <2>4. ASSUME NEW g \in Groups, groups'[g].status # "completed", groups'[g].header # NoHeader
        PROVE  groups'[g].header \in HeaderIds /\ LeftBehind(groups'[g].header)
    <3>1. groups'[g].header = groups[g].header /\ groups[g].header \in HeaderIds
      BY <1>4, <1>5, <2>1, <2>4 DEF Pending
    <3>2. ~SnapDone(g)
      BY <2>2, <2>4
    <3>3. CASE groups[g].header \in Created
      <4>1. groups[g].header \in worker.failed
        BY <2>1, <2>4, <3>3 DEF Pending
      <4>2. QED
        BY <1>5, <3>1, <4>1
    <3>4. CASE groups[g].header \notin Created
      BY <1>4, <1>7, <3>1, <3>2, <3>4 DEF DoneInv
    <3>5. QED
      BY <3>1, <3>3, <3>4
  <2>5. ASSUME NEW h \in Live'
        PROVE  \/ LeftBehind(h)'
               \/ \E g \in Groups : groups'[g].status = "completed" /\ groups'[g].header = h
    <3>1. h \in Live /\ h \in HeaderIds
      BY <1>3, <1>4
    <3>2. CASE h \in Created \/ LeftBehind(h)
      BY <1>3, <1>5, <3>1, <3>2
    <3>3. CASE \E g \in Groups : SnapDone(g) /\ h = worker.snap[g].header
      BY <2>2, <3>3
    <3>4. QED
      BY <1>0, <1>1, <3>1, <3>2, <3>3 DEF SnapInv
  <2>6. RestInv'
    <3>1. \A g \in Groups : groups'[g].status = "completed" => Full(groups[g].header)'
      <4>1. ASSUME NEW g \in Groups, groups'[g].status = "completed"
            PROVE  Full(groups[g].header)'
        <5>1. /\ groups'[g] = groups[g] /\ Full(groups[g].header)
              /\ groups[g].header \in HeaderIds
          BY <2>2, <2>3, <4>1
        <5>2. \A h \in HeaderIds : Full(h) => Full(h)'
          BY <1>3
        <5>3. QED
          BY <5>1, <5>2 DEF Full
      <4>2. QED
        BY <4>1
    <3>2. \A g \in Groups : groups'[g].status # "completed" /\ groups'[g].header # NoHeader
            => LeftBehind(groups[g].header)'
      <4>1. ASSUME NEW g \in Groups, groups'[g].status # "completed",
                   groups'[g].header # NoHeader
            PROVE  LeftBehind(groups[g].header)'
        <5>1. LeftBehind(groups'[g].header) /\ groups'[g].header \in HeaderIds
          BY <2>4, <4>1
        <5>2. \A h \in HeaderIds : LeftBehind(h) => LeftBehind(h)'
          BY <1>3
        <5>3. QED
          BY <5>1, <5>2 DEF LeftBehind
      <4>2. QED
        BY <4>1
    <3>3. Untouched' => CompletedGroups' = {}
      BY <1>1, <1>2, <2>3 DEF SnapInv, CompletedGroups
    <3>4. QED
      BY <2>5, <3>1, <3>2, <3>3 DEF RestInv
  <2>7. QED
    BY <1>0, <1>1, <1>2, <2>6 DEF DataInv, InRun, Going
<1>8. QED
  BY <1>1, <1>6, <1>7

LEMMA StopData ==
  ASSUME DataGiven, Next, Ordered', RecordWorkerStopped
  PROVE  DataInv'
<1>0. /\ TypeInv /\ OrderInv /\ DataInv /\ worker \in Workers /\ Runs
      /\ worker.pc = "stop" /\ UNCHANGED <<batch, groups, fo, spent>>
      /\ worker'.pc = "return" /\ worker.pc \in InRun /\ worker.pc \in Going
  <2>1. TypeInv /\ OrderInv /\ DataInv /\ worker \in Workers /\ Runs
    BY DEF DataGiven, JournalInv, TypeInv, TypeOK, WorkerOK, Runs, Processor
  <2>2. QED
    BY <2>1 DEF RecordWorkerStopped, InRun, Going, Goto, Workers
<1>1. /\ SnapInv /\ (Purged \/ DoneInv) /\ LoopInv /\ (Purged \/ MarkInv)
      /\ batch.status # "Posted" /\ ~Untouched
  BY <1>0 DEF DataInv, OrderInv, StatusInv
<1>2. ASSUME NEW h \in Created
      PROVE  /\ Full(h)
             /\ \/ Purged
                \/ groups[GroupOf(h)].header = h /\ groups[GroupOf(h)].status = "completed"
  <2>1. GroupOf(h) \in Nat /\ worker.at \in Nat /\ GroupOf(h) <= worker.at
    BY RunNumbers
  <2>2. GroupOf(h) < worker.at \/ GroupOf(h) = worker.at
    BY <2>1
  <2>3. Full(h)
    BY <1>0, <1>1, <2>2 DEF LoopInv, Handled, AfterGroup
  <2>4. QED
    BY <1>0, <1>1, <2>3 DEF MarkInv, AfterGroup
<1>3. RestInv
  BY <1>0, <1>1, <1>2, LeavesRest
<1>4. QED
  BY <1>0, <1>1, <1>3, RunStops DEF InRun, Going

LEMMA StoreIdsData ==
  ASSUME DataGiven, Next, Ordered', StoreCreatedHeaderIds
  PROVE  DataInv'
<1>0. /\ TypeInv /\ OrderInv /\ DataInv /\ worker \in Workers /\ Runs
      /\ worker.pc = "settle" /\ UNCHANGED <<groups, fo, spent>>
      /\ worker'.pc = "posted" /\ worker'.at = worker.at /\ worker'.snap = worker.snap
      /\ worker'.created = worker.created /\ worker'.failed = worker.failed
      /\ worker.pc \in InRun /\ worker.pc \in Going
      /\ batch \in [exists : BOOLEAN, status : BatchStatus, paused : BOOLEAN,
                    dfoIds : SUBSET HeaderIds]
  <2>1. TypeInv /\ OrderInv /\ DataInv /\ worker \in Workers /\ Runs
    BY DEF DataGiven, JournalInv, TypeInv, TypeOK, WorkerOK, Runs, Settle
  <2>2. worker.pc \in InRun /\ worker.pc \in Going
    BY DEF StoreCreatedHeaderIds, InRun, Going
  <2>3. QED
    BY <2>1, <2>2 DEF StoreCreatedHeaderIds, Goto, Workers, TypeInv, TypeOK, BatchOK
<1>1. /\ SnapInv' /\ (Purged \/ DoneInv)'
      /\ HeaderIds' = HeaderIds /\ Live' = Live /\ Created' = Created
      /\ \A g : (SnapDone(g)' <=> SnapDone(g)) /\ GroupOf(g)' = GroupOf(g)
      /\ \A h \in HeaderIds : (LeftBehind(h) => LeftBehind(h)') /\ (Full(h)' <=> Full(h))
  BY <1>0, RunKept
<1>2. /\ LoopInv /\ SnapInv /\ (Purged \/ MarkInv) /\ (Purged => Purged')
      /\ Created \subseteq HeaderIds /\ Live \subseteq HeaderIds
  BY <1>0, DataFrame, RunNumbers DEF DataInv
<1>3. \A g : (Handled(g)' <=> Handled(g))
  BY <1>0 DEF Handled, AfterGroup
<1>4. batch'.exists => Live \subseteq batch'.dfoIds
  <2>1. batch'.exists => batch.exists /\ batch'.dfoIds = batch.dfoIds \cup SnapshotHeaders \cup Created
    BY <1>0 DEF StoreCreatedHeaderIds, AddDfoIds
  <2>2. ASSUME NEW h \in Live, batch'.exists
        PROVE  h \in batch'.dfoIds
    <3>1. CASE LeftBehind(h)
      BY <2>1, <2>2, <3>1 DEF LeftBehind
    <3>2. CASE h \in Created
      BY <2>1, <2>2, <3>2
    <3>3. ASSUME NEW g \in Groups, h = worker.snap[g].header
          PROVE  h \in SnapshotHeaders
      <4>1. h # NoHeader
        BY <1>2 DEF NoHeader, HeaderIds
      <4>2. QED
        BY <3>3, <4>1 DEF SnapshotHeaders
    <3>4. QED
      BY <1>0, <1>2, <2>1, <2>2, <3>1, <3>2, <3>3 DEF SnapInv
  <2>3. QED
    BY <2>2
<1>5. LoopInv'
  BY <1>0, <1>1, <1>2, <1>3, <1>4 DEF LoopInv, AtGroup
<1>6. MarkInv => MarkInv'
  BY <1>0, <1>1 DEF MarkInv, AfterGroup
<1>7. QED
  BY <1>0, <1>1, <1>2, <1>5, <1>6, RunGoesOn DEF InRun, Going

(* Posted: the run has passed every group that was not complete before it. *)
LEMMA PostedData ==
  ASSUME DataGiven, Next, Ordered', SetPosted
  PROVE  DataInv'
<1>0. /\ TypeInv /\ OrderInv /\ DataInv /\ worker \in Workers /\ Runs
      /\ worker.pc = "posted" /\ UNCHANGED <<groups, fo, spent>> /\ worker'.pc = "finish"
      /\ worker.pc \in InRun /\ worker.pc \in Going
      /\ batch \in [exists : BOOLEAN, status : BatchStatus, paused : BOOLEAN,
                    dfoIds : SUBSET HeaderIds]
  <2>1. TypeInv /\ OrderInv /\ DataInv /\ worker \in Workers /\ Runs
    BY DEF DataGiven, JournalInv, TypeInv, TypeOK, WorkerOK, Runs, Settle
  <2>2. worker.pc \in InRun /\ worker.pc \in Going
    BY DEF SetPosted, InRun, Going
  <2>3. QED
    BY <2>1, <2>2 DEF SetPosted, Goto, Workers, TypeInv, TypeOK, BatchOK
<1>1. /\ LoopInv /\ SnapInv /\ (Purged \/ DoneInv) /\ (Purged \/ MarkInv)
      /\ batch.status # "Posted"
  BY <1>0 DEF DataInv, OrderInv, StatusInv
<1>2. /\ Created \subseteq HeaderIds /\ Live \subseteq HeaderIds
      /\ \A h \in HeaderIds : GroupOf(h) \in Groups
      /\ Groups \subseteq Nat /\ worker.at \in Nat
      /\ \A g \in Groups : worker.snap[g].header \in {NoHeader} \cup HeaderIds
      /\ \A g \in Groups :
           worker.snap[g].header # NoHeader => GroupOf(worker.snap[g].header) = g
      /\ \A h, k \in Created : GroupOf(h) = GroupOf(k) => h = k
      /\ \A h \in Created : GroupOf(h) <= worker.at
      /\ NoHeader \notin HeaderIds
  BY RunNumbers DEF NoHeader, HeaderIds
<1>3. ASSUME NEW g \in Groups
      PROVE  Handled(g) \/ SnapDone(g)
  <2>1. g \in Nat
    BY <1>2
  <2>2. g < worker.at \/ g = worker.at \/ g > worker.at
    BY <1>2, <2>1
  <2>3. QED
    BY <1>0, <1>1, <2>2 DEF LoopInv, Handled, AfterGroup
<1>4. ASSUME NEW h \in Created
      PROVE  Full(h)
  <2>1. GroupOf(h) \in Groups /\ GroupOf(h) \in Nat /\ GroupOf(h) <= worker.at
    BY <1>2
  <2>2. GroupOf(h) < worker.at \/ GroupOf(h) = worker.at
    BY <1>2, <2>1
  <2>3. QED
    BY <1>0, <1>1, <2>2 DEF LoopInv, Handled, AfterGroup
<1>5. CASE batch.exists
  <2>1. batch' = [batch EXCEPT !.status = "Posted"]
    BY <1>5 DEF SetPosted, SetBatchStatus
  <2>2. batch'.exists /\ batch'.status = "Posted" /\ batch'.dfoIds = batch.dfoIds
    BY <1>0, <1>5, <2>1
(* Every journal was left behind, or is the complete one of its group.     *)
  <2>3. ASSUME NEW h \in Live
        PROVE  \/ fo[h].kept
               \/ h \in Created /\ Full(h)
               \/ SnapDone(GroupOf(h)) /\ h = worker.snap[GroupOf(h)].header /\ Full(h)
    <3>1. CASE LeftBehind(h)
      BY <3>1 DEF LeftBehind
    <3>2. CASE h \in Created
      BY <1>4, <3>2
    <3>3. ASSUME NEW g \in Groups, SnapDone(g), h = worker.snap[g].header
          PROVE  SnapDone(GroupOf(h)) /\ h = worker.snap[GroupOf(h)].header /\ Full(h)
      <4>1. GroupOf(h) = g
        BY <1>2, <3>3
      <4>2. QED
        BY <1>1, <3>3, <4>1 DEF SnapInv
    <3>4. QED
      BY <1>0, <1>1, <3>1, <3>2, <3>3 DEF SnapInv
  <2>4. ASSUME NEW g \in Groups
        PROVE  Posted(g) # {}
    <3>1. \E h \in HeaderIds : Full(h) /\ GroupOf(h) = g
      <4>1. CASE SnapDone(g)
        <5>1. Full(worker.snap[g].header) /\ worker.snap[g].header \in HeaderIds
          BY <1>1, <1>2, <4>1 DEF SnapInv, Full
        <5>2. QED
          BY <1>2, <5>1
      <4>2. CASE ~SnapDone(g)
        <5>1. \E h \in Created : GroupOf(h) = g
          BY <1>1, <1>3, <4>2 DEF LoopInv
        <5>2. QED
          BY <1>2, <1>4, <5>1
      <4>3. QED
        BY <4>1, <4>2
    <3>2. QED
      BY <3>1 DEF Full, Posted, GroupOf
  <2>5. ASSUME NEW g \in Groups, NEW h \in Posted(g), NEW k \in Posted(g)
        PROVE  h = k \/ fo[h].kept \/ fo[k].kept
    <3>1. h \in Live /\ k \in Live /\ GroupOf(h) = g /\ GroupOf(k) = g
      BY DEF Posted, GroupOf
    <3>2. /\ fo[h].kept \/ h \in Created \/ (SnapDone(g) /\ h = worker.snap[g].header)
          /\ fo[k].kept \/ k \in Created \/ (SnapDone(g) /\ k = worker.snap[g].header)
      BY <2>3, <3>1
    <3>3. SnapDone(g) => h \notin Created /\ k \notin Created
      BY <1>1, <3>1 DEF SnapInv
    <3>4. h \in Created /\ k \in Created => h = k
      BY <1>2, <3>1
    <3>5. QED
      BY <3>2, <3>3, <3>4
  <2>6. \A h \in Live : fo[h].lines # "full" => fo[h].kept
    BY <2>3 DEF Full
  <2>7. Live \subseteq batch'.dfoIds
    BY <1>0, <1>1, <1>5, <2>2 DEF LoopInv
  <2>8. HeaderIds' = HeaderIds /\ Live' = Live /\ \A g : Posted(g)' = Posted(g)
    BY <1>0 DEF HeaderIds, Live, Posted
  <2>9. PostedIsComplete' /\ PostedOnce' /\ PostedIsKnown'
    BY <1>0, <2>4, <2>5, <2>6, <2>7, <2>8 DEF PostedIsComplete, PostedOnce, PostedIsKnown
  <2>10. (groups = NoGroups \/ Present)' /\ AskedInv'
    BY <1>0, DataFrame
  <2>11. QED
    BY <1>0, <2>2, <2>9, <2>10 DEF DataInv, InRun, Going
<1>6. CASE ~batch.exists
  <2>1. UNCHANGED batch
    BY <1>6 DEF SetPosted, SetBatchStatus
  <2>2. ~Untouched
    <3>1. spent \in [submits : Nat, pauses : Nat, deletes : Nat, faults : Nat, crashes : Nat]
      BY <1>0 DEF TypeInv, TypeOK, RequestsOK
    <3>2. spent.deletes # 0
      BY <1>0, <1>6 DEF OrderInv, QueueInv
    <3>3. QED
      BY <3>1, <3>2 DEF Untouched
  <2>3. ASSUME NEW h \in Created
        PROVE  \/ Purged
               \/ groups[GroupOf(h)].header = h /\ groups[GroupOf(h)].status = "completed"
    BY <1>0, <1>1 DEF MarkInv, AfterGroup
  <2>4. RestInv
    BY <1>0, <1>1, <1>4, <2>2, <2>3, LeavesRest
  <2>5. QED
    BY <1>0, <1>1, <2>1, <2>4, RunStops DEF InRun, Going
<1>7. QED
  BY <1>5, <1>6

LEMMA DataStep ==
  ASSUME DataGiven, DeletesCounted, Next, Ordered'
  PROVE  DataInv'
<1>1. TypeInv /\ OrderInv /\ DataInv /\ ~StoreFault /\ ~Crash
      /\ ~CreateHeaderUnanswered /\ ~PostLinesRepeated
  BY OrderedBefore DEF DataGiven, JournalInv
<1>2. CASE Outside
  BY <1>1, <1>2, OutsideData
<1>3. CASE PickUp
  BY <1>3, PickUpData
<1>4. CASE Processor
  BY <1>4, EndsData, ListData, CheckData, StopData, MarkData, CompleteData, CountData
    DEF Processor
<1>5. CASE PostGroup
  BY <1>1, <1>5, ReuseData, CreateData, RejectedData, RecordData, LinesData, UndoData
    DEF PostGroup
<1>6. CASE RollBack
  BY <1>6, StartRollbackData, UndoData, RollbackDoneData, ResetData DEF RollBack
<1>7. CASE Settle
  BY <1>7, StoreIdsData, PostedData DEF Settle
<1>8. QED
  BY <1>1, <1>2, <1>3, <1>4, <1>5, <1>6, <1>7 DEF Next, Outside

-----------------------------------------------------------------------------
(* The counter of the job.                                                 *)
LEMMA CountFrame ==
  ASSUME CountInv, CompletedGroups' = CompletedGroups,
         groups = NoGroups => groups' = NoGroups,
         job'.completed = job.completed, job'.status = "none" <=> job.status = "none",
         \A s \in Submitters :
           {subs[s], subs'[s]} \cap {"insertGroups", "upsertJob"} # {} => subs'[s] = subs[s],
         worker'.pc = "count" <=> worker.pc = "count"
  PROVE  CountInv'
<1>1. NoGroups' = NoGroups
  BY DEF NoGroups
<1>2. \A s \in Submitters : /\ subs'[s] = "upsertJob" <=> subs[s] = "upsertJob"
                            /\ subs'[s] = "insertGroups" <=> subs[s] = "insertGroups"
  OBVIOUS
<1>3. QED
  BY <1>1, <1>2 DEF CountInv

(* A request, a pause, a resume or a deletion.                             *)
LEMMA OutsideCount ==
  ASSUME TypeInv, OrderInv, DataInv, CountInv, Next, Ordered', Outside
  PROVE  CountInv'
<1>0. /\ subs \in [Submitters -> SubPc] /\ UNCHANGED worker
      /\ job \in [status : JobStatus, completed : Nat]
  BY OutsideKeeps DEF TypeInv, TypeOK, RequestsOK, JobOK
<1>1. UNCHANGED groups => CompletedGroups' = CompletedGroups
  BY DEF CompletedGroups
<1>2. ASSUME NEW s \in Submitters, Submit(s)
      PROVE  CountInv'
  <2>1. ASSUME NEW p \in SubPc, SubGoto(s, p)
        PROVE  subs'[s] = p /\ \A t \in Submitters : t # s => subs'[t] = subs[t]
    BY <1>0, <2>1 DEF SubGoto
  <2>2. subs[s] # "idle" => /\ \A t \in Submitters : t # s => subs[t] = "idle"
                            /\ worker.pc # "count"
    BY DEF OrderInv, AskInv
  <2>3. CASE ReplaceDeleteGroups(s)
    <3>1. /\ groups' = NoGroups /\ UNCHANGED job /\ subs[s] = "deleteGroups"
          /\ subs'[s] = "insertGroups"
      BY <2>1, <2>3 DEF ReplaceDeleteGroups, SubPc
    <3>2. \A t \in Submitters : subs'[t] # "upsertJob"
      BY <2>1, <2>2, <2>3, <3>1 DEF ReplaceDeleteGroups, SubPc
    <3>3. NoGroups' = NoGroups
      BY DEF NoGroups
    <3>4. QED
      BY <1>0, <2>2, <3>1, <3>2, <3>3 DEF CountInv
  <2>4. CASE ReplaceInsertGroups(s)
    <3>1. groups = NoGroups /\ subs[s] = "insertGroups"
      BY <2>4 DEF ReplaceInsertGroups, DataInv, AskedInv
    <3>2. /\ groups' = [g \in Groups |-> Pending] /\ UNCHANGED job /\ subs'[s] = "upsertJob"
      BY <2>1, <2>4, <3>1 DEF ReplaceInsertGroups, SubPc
    <3>3. CompletedGroups' = {}
      BY <3>2 DEF CompletedGroups, Pending
    <3>4. QED
      BY <1>0, <2>2, <3>1, <3>2, <3>3 DEF CountInv
  <2>5. CASE ReplaceUpsertJob(s)
    <3>1. /\ subs[s] = "upsertJob" /\ UNCHANGED groups /\ subs'[s] = "add"
          /\ job' = [status |-> "queued", completed |-> 0]
          /\ \A t \in Submitters : t # s => subs'[t] = subs[t]
      BY <2>1, <2>5 DEF ReplaceUpsertJob, SubPc
    <3>2. CompletedGroups' = {}
      BY <1>1, <3>1 DEF DataInv, AskedInv
    <3>3. Cardinality(CompletedGroups') = 0
      BY <3>2, FS_EmptySet
    <3>4. QED
      BY <1>0, <2>2, <3>1, <3>2, <3>3 DEF CountInv
  <2>6. CASE ~ReplaceDeleteGroups(s) /\ ~ReplaceInsertGroups(s) /\ ~ReplaceUpsertJob(s)
    <3>1. /\ UNCHANGED <<groups, job>> /\ subs[s] \notin {"insertGroups", "upsertJob"}
          /\ \E p \in SubPc \ {"insertGroups", "upsertJob"} : SubGoto(s, p)
      BY <1>2, <2>6 DEF Submit, SubmitValidate, SubmitPrepare, SubmitLookup,
       SubmitMarkPosted, SubmitRemoveFailed, SubmitStorePrepare, SubmitAdd, SubPc
    <3>2. \A t \in Submitters : {subs[t], subs'[t]} \cap {"insertGroups", "upsertJob"} # {}
            => subs'[t] = subs[t]
      BY <2>1, <3>1
    <3>3. QED
      BY <1>0, <1>1, <3>1, <3>2, CountFrame
  <2>7. QED
    BY <2>3, <2>4, <2>5, <2>6
<1>3. CASE DeletePurge
  <2>1. groups' = NoGroups /\ UNCHANGED subs /\ job' = [status |-> "none", completed |-> 0]
    BY <1>3 DEF DeletePurge
  <2>2. CompletedGroups' = {} /\ NoGroups' = NoGroups
    BY <2>1 DEF CompletedGroups, NoGroups, Absent
  <2>3. Cardinality(CompletedGroups') = 0
    BY <2>2, FS_EmptySet
  <2>4. QED
    BY <1>0, <2>1, <2>2, <2>3 DEF CountInv
<1>4. CASE (Control /\ ~DeletePurge) \/ PromoteDelayed \/ Stalled \/ Boot
  <2>1. UNCHANGED <<groups, subs>> /\ (UNCHANGED job \/ SetJobStatus("queued"))
    BY <1>4 DEF Control, PauseRead, PauseSet, ResumeRead,
       ResumeClear, ResumeFindJob, RequeueCheck, RequeueAdd, MarkQueued, DeleteRead,
       DeletePause, DeleteRedisJob, DeleteBatch,
       PromoteDelayed, Stalled, Boot, ReleaseRead, ForceRemove, Restore
  <2>2. job'.completed = job.completed /\ (job'.status = "none" <=> job.status = "none")
    BY <1>0, <2>1 DEF SetJobStatus
  <2>3. QED
    BY <1>0, <1>1, <2>1, <2>2, CountFrame
<1>5. QED
  BY <1>2, <1>3, <1>4 DEF Outside

(* The processor.                                                          *)
LEMMA RunsCount ==
  ASSUME DataGiven, CountInv, Next, Ordered', Runs
  PROVE  CountInv'
<1>0. /\ TypeInv /\ OrderInv /\ DataInv /\ worker \in Workers
      /\ job \in [status : JobStatus, completed : Nat]
      /\ groups \in [Groups -> GroupDocs] /\ UNCHANGED subs
      /\ worker.pc # "throw" => \A s \in Submitters : subs[s] = "idle"
  BY RunsFrame DEF DataGiven, JournalInv, TypeInv, TypeOK, WorkerOK, JobOK, GroupsOK
<1>1. /\ groups = NoGroups => groups' = NoGroups
      /\ \A g \in Groups : groups[g].status \in {"absent", "pending", "active", "completed"}
  BY <1>0, PurgeStays DEF GroupDocs
<1>2. UNCHANGED groups => CompletedGroups' = CompletedGroups
  BY DEF CompletedGroups
<1>3. ASSUME NEW s \in JobStatus \ {"none"}, UNCHANGED job \/ SetJobStatus(s)
      PROVE  job'.completed = job.completed /\ (job'.status = "none" <=> job.status = "none")
  BY <1>0, <1>3 DEF SetJobStatus
<1>4. CASE MarkGroupActive
  <2>1. /\ worker.pc = "markGroup" /\ worker'.pc = "open" /\ UNCHANGED job
        /\ worker.at \in Groups
    BY <1>0, <1>4 DEF MarkGroupActive, Goto, Workers, TypeInv, WorkerPosition
  <2>2. CASE groups = NoGroups
    <3>1. UNCHANGED groups
      BY <1>1, <2>2
    <3>2. QED
      BY <1>0, <1>1, <1>2, <2>1, <3>1, CountFrame
  <2>3. CASE groups # NoGroups
    <3>1. LoopInv /\ DoneInv
      BY <1>0, <2>1, <2>3 DEF DataInv, InRun, Going, Purged
    <3>2. groups[worker.at].status # "completed"
      <4>1. SUFFICES ASSUME groups[worker.at].status = "completed" PROVE FALSE
        OBVIOUS
      <4>2. groups[worker.at].header \in Created
        BY <2>1, <3>1, <4>1 DEF LoopInv, DoneInv, AtGroup
      <4>3. /\ groups[worker.at].header \in HeaderIds
            /\ GroupOf(groups[worker.at].header) < worker.at
            /\ GroupOf(groups[worker.at].header) = worker.at /\ worker.at \in Nat
        <5>1. groups[worker.at].header \in HeaderIds /\ NoHeader \notin HeaderIds
          BY <4>2, RunNumbers DEF NoHeader, HeaderIds
        <5>2. QED
          BY <2>1, <4>2, <5>1, RunNumbers DEF OpensGroup
      <4>4. QED
        BY <4>3
    <3>3. CompletedGroups' = CompletedGroups
      BY <1>0, <1>4, <2>1, <3>2 DEF MarkGroupActive, SetGroup, CompletedGroups, GroupDocs
    <3>4. QED
      BY <1>0, <1>1, <2>1, <3>3, CountFrame
  <2>4. QED
    BY <2>2, <2>3
<1>5. CASE CompleteGroup
  <2>1. /\ worker.pc = "complete" /\ UNCHANGED job /\ worker.at \in Groups
        /\ worker'.pc = IF groups[worker.at].status \in {"pending", "active"}
                        THEN "count" ELSE "check"
    BY <1>0, <1>5 DEF CompleteGroup, Goto, Workers, TypeInv, WorkerPosition
  <2>2. CASE groups[worker.at].status \in {"pending", "active"}
    <3>1. CompletedGroups' = CompletedGroups \cup {worker.at}
      BY <1>0, <1>5, <2>1, <2>2 DEF CompleteGroup, SetGroup, CompletedGroups, GroupDocs
    <3>2. worker.at \notin CompletedGroups
      BY <2>2 DEF CompletedGroups
    <3>3. IsFiniteSet(CompletedGroups)
      <4>1. N \in Nat /\ 1 \in Int /\ N \in Int
        BY DurableQueueAssumption DEF DurableQueueAssumption
      <4>2. IsFiniteSet(Groups)
        BY <4>1, FS_Interval DEF Groups
      <4>3. CompletedGroups \subseteq Groups
        BY DEF CompletedGroups
      <4>4. QED
        BY <4>2, <4>3, FS_Subset
    <3>4. Cardinality(CompletedGroups') = Cardinality(CompletedGroups) + 1
      BY <3>1, <3>2, <3>3, FS_AddElement
    <3>5. job.completed = Cardinality(CompletedGroups)
      BY <1>0, <2>1 DEF CountInv
    <3>6. /\ groups # NoGroups /\ job.status # "none"
      BY <1>0, <2>1, <2>2 DEF CountInv, NoGroups, Absent
    <3>7. QED
      BY <1>0, <2>1, <2>2, <3>4, <3>5, <3>6 DEF CountInv
  <2>3. CASE groups[worker.at].status \notin {"pending", "active"}
    <3>1. CompletedGroups' = CompletedGroups
      BY <1>0, <1>1, <1>5, <2>1, <2>3 DEF CompleteGroup, SetGroup, CompletedGroups, GroupDocs
    <3>2. QED
      BY <1>0, <1>1, <2>1, <2>3, <3>1, CountFrame
  <2>4. QED
    BY <2>2, <2>3
<1>6. CASE CountGroup
  <2>1. /\ worker.pc = "count" /\ worker'.pc = "check" /\ UNCHANGED groups
        /\ \A s \in Submitters : subs[s] = "idle"
        /\ job' = IF job.status = "none" THEN job
                  ELSE [job EXCEPT !.completed = job.completed + 1]
    BY <1>0, <1>6 DEF CountGroup, Goto, Workers
  <2>2. CASE job.status = "none"
    <3>1. groups = NoGroups /\ job.completed = 0
      BY <2>1, <2>2 DEF CountInv
    <3>2. CompletedGroups' = {} /\ groups' = NoGroups' /\ UNCHANGED job
      BY <2>1, <2>2, <3>1 DEF CompletedGroups, NoGroups, Absent
    <3>3. QED
      BY <1>0, <2>1, <3>1, <3>2, FS_EmptySet DEF CountInv
  <2>3. CASE job.status # "none"
    <3>1. job'.completed = Cardinality(CompletedGroups) /\ job'.status # "none"
      BY <1>0, <2>1, <2>3 DEF CountInv
    <3>2. QED
      BY <1>0, <1>2, <2>1, <3>1 DEF CountInv
  <2>4. QED
    BY <2>2, <2>3
<1>7. CASE SetCreatedHeader
  <2>1. /\ worker.pc = "record" /\ worker'.pc = "lines" /\ UNCHANGED job /\ worker.at \in Groups
    BY <1>0, <1>7 DEF SetCreatedHeader, Workers, TypeInv, WorkerPosition
  <2>2. CompletedGroups' = CompletedGroups
    BY <1>0, <1>7, <2>1 DEF SetCreatedHeader, SetGroup, CompletedGroups, GroupDocs
  <2>3. QED
    BY <1>0, <1>1, <2>1, <2>2, CountFrame
<1>8. CASE ResetGroups
  <2>1. /\ worker.pc = "reset" /\ worker'.pc = "fail"
        /\ \A s \in Submitters : subs[s] = "idle"
        /\ job' = IF job.status = "none" THEN job
                  ELSE [job EXCEPT !.completed =
                          Cardinality({g \in Groups : groups'[g].status = "completed"})]
    BY <1>0, <1>8 DEF ResetGroups, resetAfterRollback, Goto, Workers
  <2>2. CASE job.status = "none"
    <3>1. groups = NoGroups /\ job.completed = 0
      BY <2>1, <2>2 DEF CountInv
    <3>2. groups' = NoGroups /\ UNCHANGED job
      BY <1>1, <2>1, <2>2, <3>1
    <3>3. CompletedGroups' = {} /\ NoGroups' = NoGroups
      BY <3>2 DEF CompletedGroups, NoGroups, Absent
    <3>4. QED
      BY <1>0, <2>1, <3>1, <3>2, <3>3, FS_EmptySet DEF CountInv
  <2>3. CASE job.status # "none"
    <3>1. job'.completed = Cardinality(CompletedGroups') /\ job'.status # "none"
      BY <1>0, <2>1, <2>3 DEF CompletedGroups
    <3>2. QED
      BY <1>0, <2>1, <3>1 DEF CountInv
  <2>4. QED
    BY <2>2, <2>3
<1>9. CASE \/ MarkActive \/ ListGroups \/ CheckPause \/ RecordWorkerStopped
           \/ MarkCompleted \/ FailJob \/ CancelBatch \/ Return \/ Throw
           \/ (PostGroup /\ ~SetCreatedHeader) \/ (RollBack /\ ~ResetGroups) \/ Settle
  <2>1. UNCHANGED groups /\ \E s \in JobStatus \ {"none"} : UNCHANGED job \/ SetJobStatus(s)
    <3>1. CASE MarkActive \/ RecordWorkerStopped \/ MarkCompleted
      BY <3>1 DEF MarkActive, RecordWorkerStopped, MarkCompleted, JobStatus
    <3>2. CASE FailJob
      <4>1. SetJobStatus("failed") \/ SetJobStatus("retrying")
        BY <3>2 DEF FailJob
      <4>2. QED
        BY <3>2, <4>1 DEF FailJob, JobStatus
    <3>3. ASSUME UNCHANGED <<groups, job>>
          PROVE  UNCHANGED groups /\ \E s \in JobStatus \ {"none"} : UNCHANGED job \/ SetJobStatus(s)
      BY <3>3 DEF JobStatus
    <3>4. CASE ListGroups \/ CheckPause \/ CancelBatch \/ Return \/ Throw \/ Settle
      BY <3>3, <3>4 DEF ListGroups, CheckPause, CancelBatch, Return, Throw, Settle,
         StoreCreatedHeaderIds, SetPosted
    <3>5. CASE PostGroup /\ ~SetCreatedHeader
      BY <3>3, <3>5 DEF PostGroup, ReuseHeader, CreateHeader, CreateHeaderRejected,
         CreateHeaderUnanswered, PostLines, PostLinesRepeated, PostLinesRejected
    <3>6. CASE RollBack /\ ~ResetGroups
      BY <3>3, <3>6 DEF RollBack, StartRollback, RollbackLines, RollbackHeader, RetainHeader,
         RollbackDone, KeepRetainedIds
    <3>7. QED
      BY <1>9, <3>1, <3>2, <3>4, <3>5, <3>6
  <2>2. worker.pc # "count" /\ worker'.pc # "count"
    <3>1. ASSUME NEW p, Goto(p), p # "count" PROVE worker'.pc # "count"
      BY <1>0, <3>1 DEF Goto, Workers
    <3>2. CASE \/ MarkActive \/ RecordWorkerStopped \/ MarkCompleted \/ FailJob \/ CancelBatch
               \/ RollbackDone \/ KeepRetainedIds \/ Settle
               \/ CreateHeaderRejected \/ PostLines \/ PostLinesRepeated \/ PostLinesRejected
      BY <3>1, <3>2 DEF MarkActive, RecordWorkerStopped, MarkCompleted, FailJob, CancelBatch,
         RollbackDone, KeepRetainedIds, Settle, StoreCreatedHeaderIds, SetPosted,
         CreateHeaderRejected, PostLines, PostLinesRepeated, PostLinesRejected
    <3>3. CASE CheckPause
      BY <1>0, <3>1, <3>3 DEF CheckPause, Workers
    <3>4. CASE \/ ListGroups \/ Return \/ Throw \/ ReuseHeader \/ CreateHeader
               \/ StartRollback \/ RollbackLines \/ RollbackHeader \/ RetainHeader
      <4>1. CASE Return \/ Throw
        BY <4>1 DEF Return, Throw, IdleWorker
      <4>2. CASE RollbackLines
        BY <4>2 DEF RollbackLines
      <4>3. CASE ListGroups \/ ReuseHeader \/ CreateHeader
        BY <1>0, <4>3 DEF ListGroups, ReuseHeader, CreateHeader, Workers
      <4>4. CASE StartRollback \/ RollbackHeader \/ RetainHeader
        BY <1>0, <4>4 DEF StartRollback, RollbackHeader, RetainHeader, Workers
      <4>5. QED
        BY <3>4, <4>1, <4>2, <4>3, <4>4
    <3>5. ~CreateHeaderUnanswered
      BY <1>0, OrderedBefore
    <3>6. QED
      BY <1>9, <3>2, <3>3, <3>4, <3>5 DEF PostGroup, RollBack
  <2>3. QED
    BY <1>0, <1>2, <1>3, <2>1, <2>2, CountFrame
<1>10. QED
  BY <1>4, <1>5, <1>6, <1>7, <1>8, <1>9 DEF Runs, Processor, PostGroup, RollBack

-----------------------------------------------------------------------------
CleanInv ==
  /\ JournalInv
  /\ DeletesCounted
  /\ RollbackInv
  /\ Ordered => OrderInv /\ DataInv /\ CountInv

LEMMA CleanInvInit == Init => CleanInv
<1> SUFFICES ASSUME Init PROVE CleanInv
  OBVIOUS
<1>1. /\ worker.pc = "idle" /\ worker.created = <<>> /\ worker.failed = {} /\ worker.at = 0
      /\ HeaderIds = {} /\ CompletedGroups = {} /\ groups = NoGroups
      /\ \A s \in Submitters : subs[s] = "idle"
      /\ \A g \in Groups : groups[g] = Absent
  BY DEF Init, IdleWorker, HeaderIds, CompletedGroups, NoGroups, Absent
<1>2. Live = {}
  BY <1>1 DEF Live
<1>3. RestInv
  BY <1>1, <1>2 DEF RestInv, Absent
<1>4. DataInv
  BY <1>1, <1>3 DEF Init, DataInv, AskedInv, InRun, Going
<1>5. CountInv
  BY <1>1, FS_EmptySet DEF Init, CountInv
<1>6. DeletesCounted /\ RollbackInv
  BY <1>1 DEF Init, DeletesCounted, RollbackInv
<1>7. QED
  BY <1>4, <1>5, <1>6, JournalInvInit, OrderInvInit DEF CleanInv

LEMMA CleanInvStep == CleanInv /\ [Next]_vars => CleanInv'
<1> SUFFICES ASSUME CleanInv, [Next]_vars PROVE CleanInv'
  OBVIOUS
<1>1. CASE UNCHANGED vars
  <2>1. JournalInv' /\ DeletesCounted' /\ RollbackInv' /\ (Ordered' <=> Ordered)
    BY <1>1, JournalInvStep DEF vars, CleanInv, DeletesCounted, RollbackInv, Undone, Ordered
  <2>2. /\ HeaderIds' = HeaderIds /\ Live' = Live /\ Created' = Created
        /\ CompletedGroups' = CompletedGroups /\ ((Untouched)' <=> Untouched)
        /\ (Purged' <=> Purged) /\ NoGroups' = NoGroups
        /\ \A h : GroupOf(h)' = GroupOf(h) /\ (LeftBehind(h)' <=> LeftBehind(h))
        /\ \A h : (Full(h)' <=> Full(h))
        /\ \A g : (SnapDone(g)' <=> SnapDone(g)) /\ (Handled(g)' <=> Handled(g))
        /\ \A g : Posted(g)' = Posted(g)
    BY <1>1 DEF vars, HeaderIds, Live, Created, CompletedGroups, Untouched, Purged, NoGroups,
       GroupOf, LeftBehind, Full, SnapDone, Handled, Posted
  <2>3. OrderInv => OrderInv'
    BY <1>1, <2>2 DEF vars, OrderInv, QueueInv, AskInv, HeldInv, StatusInv, LastAttempt, Underway
  <2>4. (SnapInv => SnapInv') /\ (LoopInv => LoopInv')
    BY <1>1, <2>2 DEF vars, SnapInv, LoopInv
  <2>5. (DoneInv => DoneInv') /\ (MarkInv => MarkInv') /\ (RestInv => RestInv')
    BY <1>1, <2>2 DEF vars, DoneInv, MarkInv, RestInv, Present
  <2>6. (AskedInv => AskedInv') /\ (PostedFacts => PostedFacts') /\ (Present' <=> Present)
    BY <1>1, <2>2 DEF vars, AskedInv, PostedFacts, PostedIsComplete, PostedOnce, PostedIsKnown,
       Present
  <2>7. (DataInv => DataInv') /\ (CountInv => CountInv')
    BY <1>1, <2>2, <2>4, <2>5, <2>6 DEF vars, DataInv, CountInv, PostedFacts
  <2>8. QED
    BY <2>1, <2>3, <2>7 DEF CleanInv
<1>2. CASE Next
  <2>1. JournalInv' /\ DeletesCounted' /\ RollbackInv'
    BY <1>2, JournalInvStep, IntactBefore, RollbackStep DEF CleanInv, JournalInv
  <2>2. ASSUME Ordered'
        PROVE  OrderInv' /\ DataInv' /\ CountInv'
    <3>1. Ordered /\ TypeInv
      BY <1>2, <2>2, OrderedBefore DEF CleanInv, JournalInv
    <3>2. DataGiven /\ CountInv
      BY <3>1 DEF CleanInv, DataGiven
    <3>3. OrderInv' /\ DataInv'
      BY <1>2, <2>2, <3>1, <3>2, OrderStep, DataStep DEF CleanInv, DataGiven
    <3>4. CountInv'
      <4>1. CASE Outside
        BY <1>2, <2>2, <3>1, <3>2, <4>1, OutsideCount DEF DataGiven
      <4>2. CASE Runs
        BY <1>2, <2>2, <3>2, <4>2, RunsCount
      <4>3. CASE PickUp
        <5>1. /\ UNCHANGED <<groups, job, subs>> /\ worker.pc = "idle" /\ worker'.pc = "start"
              /\ CompletedGroups' = CompletedGroups
          BY <4>3 DEF PickUp, IdleWorker, CompletedGroups
        <5>2. QED
          BY <3>2, <5>1, CountFrame
      <4>4. ~StoreFault /\ ~Crash
        BY <1>2, <2>2, <3>1, OrderedBefore
      <4>5. QED
        BY <1>2, <4>1, <4>2, <4>3, <4>4 DEF Next, Outside, Runs
    <3>5. QED
      BY <3>3, <3>4
  <2>3. QED
    BY <2>1, <2>2 DEF CleanInv
<1>3. QED
  BY <1>1, <1>2

(* Whatever is paused, deleted, refused or rolled back: a batch that is    *)
(* Posted has the journal of every group in Finance, once, and the user    *)
(* finds it in dfoIds (executePosting and handlePostingSuccess), for any   *)
(* number of groups and attempts; with requests that come one at a time, or*)
(* one that is paused, resumed and deleted.                                *)
THEOREM PostedIsPosted == Spec => []PostedMeansPosted
<1>1. CleanInv => PostedMeansPosted
  BY DEF CleanInv, DataInv, PostedMeansPosted, PostedIsComplete, PostedOnce, PostedIsKnown
<1>2. QED
  BY <1>1, CleanInvInit, CleanInvStep, PTL DEF Spec

(* A batch that was given up (Canceled, after the final attempt) has left  *)
(* nothing in Finance but what Finance refused to delete, which is in      *)
(* dfoIds, and the groups that were completed before a pause.              *)
THEOREM CanceledRolledBack == Spec => []CanceledIsRolledBack
<1>1. CleanInv => CanceledIsRolledBack
  <2> SUFFICES ASSUME CleanInv, Ordered, Quiescent, batch.status = "Canceled",
                      spent.deletes = 0, NEW h \in Live
               PROVE  \/ fo[h].kept /\ h \in batch.dfoIds
                      \/ spent.pauses > 0 /\ \E g \in CompletedGroups : groups[g].header = h
    BY DEF CanceledIsRolledBack
  <2>1. RestInv /\ ~Purged /\ batch.exists
    BY DEF CleanInv, DataInv, OrderInv, QueueInv, Quiescent, InRun, Going, Purged
  <2>2. CASE LeftBehind(h)
    BY <2>1, <2>2 DEF LeftBehind
  <2>3. ASSUME NEW g \in Groups, groups[g].status = "completed", groups[g].header = h
        PROVE  spent.pauses > 0 /\ g \in CompletedGroups
    <3>1. g \in CompletedGroups
      BY <2>3 DEF CompletedGroups
    <3>2. ~Untouched
      BY <2>1, <3>1 DEF RestInv
    <3>3. spent.pauses \in Nat
      BY DEF CleanInv, JournalInv, TypeInv, TypeOK, RequestsOK
    <3>4. QED
      BY <3>1, <3>2, <3>3 DEF Untouched
  <2>4. QED
    BY <2>1, <2>2, <2>3 DEF RestInv
<1>2. QED
  BY <1>1, CleanInvInit, CleanInvStep, PTL DEF Spec

(* When nothing runs, the counter of the job (markGroupCompleted, and      *)
(* resetAfterRollback which takes it again) is the number of completed     *)
(* groups.                                                                 *)
THEOREM ProgressMatches == Spec => []ProgressMatchesGroups
<1>1. CleanInv => ProgressMatchesGroups
  BY DEF CleanInv, CountInv, ProgressMatchesGroups, Quiescent
<1>2. QED
  BY <1>1, CleanInvInit, CleanInvStep, PTL DEF Spec
-----------------------------------------------------------------------------
(* The processor implements PostingLifecycle, step by step.                *)

(* The state of the abstract specification.                                *)
Complete == {g \in Groups : Posted(g) # {}}
StuckGroups == {g \in Groups : \E h \in Live : fo[h].group = g /\ fo[h].kept}

(* What the invariants give in a run that nobody pauses or deletes: there  *)
(* was nothing complete before it.                                         *)
LEMMA FreshRun ==
  ASSUME CleanInv, Ordered, Untouched, worker.pc \in InRun
  PROVE  /\ DataGiven /\ batch.exists /\ batch.status = "Posting"
         /\ Created \subseteq HeaderIds /\ \A h \in HeaderIds : GroupOf(h) \in Groups
         /\ \A h, k \in Created : GroupOf(h) = GroupOf(k) => h = k
         /\ worker.pc # "record" =>
              \A e \in Created : \A h \in Live : GroupOf(h) = GroupOf(e) /\ h # e => fo[h].kept
<1>1. DataGiven /\ SnapInv /\ \A g \in Groups : ~SnapDone(g)
  BY DEF CleanInv, DataGiven, DataInv, SnapInv
<1>2. batch.exists /\ batch.status = "Posting"
  BY DEF CleanInv, OrderInv, StatusInv, Underway, InRun, Going
<1>3. /\ Created \subseteq HeaderIds /\ \A h \in HeaderIds : GroupOf(h) \in Groups
      /\ \A h, k \in Created : GroupOf(h) = GroupOf(k) => h = k
  BY <1>1, RunNumbers
<1>4. ASSUME worker.pc # "record", NEW e \in Created, NEW h \in Live,
             GroupOf(h) = GroupOf(e), h # e
      PROVE  fo[h].kept
  BY <1>1, <1>3, <1>4 DEF SnapInv, LeftBehind
<1>5. QED
  BY <1>1, <1>2, <1>3, <1>4

(* An edit of one of its own journals shows in the group of it only.       *)
LEMMA EditShows ==
  ASSUME CleanInv, Ordered, Untouched, worker.pc \in InRun \ {"record"},
         NEW e \in Created, NEW doc, fo' = [fo EXCEPT ![e] = doc],
         doc.group = fo[e].group, doc.live => fo[e].live
  PROVE  /\ \A g \in Groups : g # GroupOf(e) => (g \in Complete' <=> g \in Complete)
         /\ \A g \in Groups : g # GroupOf(e) => (g \in StuckGroups' <=> g \in StuckGroups)
         /\ GroupOf(e) \in Complete' <=>
              \/ doc.live /\ doc.lines \in {"full", "extra"}
              \/ \E h \in Posted(GroupOf(e)) : h # e
         /\ GroupOf(e) \in Complete <=>
              \/ fo[e].live /\ fo[e].lines \in {"full", "extra"}
              \/ \E h \in Posted(GroupOf(e)) : h # e
         /\ GroupOf(e) \in StuckGroups' <=>
              \/ doc.live /\ doc.kept
              \/ \E h \in Live : h # e /\ GroupOf(h) = GroupOf(e) /\ fo[h].kept
         /\ GroupOf(e) \in StuckGroups <=>
              \/ fo[e].live /\ fo[e].kept
              \/ \E h \in Live : h # e /\ GroupOf(h) = GroupOf(e) /\ fo[h].kept
         /\ \A h \in Posted(GroupOf(e)) : h # e => fo[h].kept /\ h \in Live /\ GroupOf(h) = GroupOf(e)
<1>1. /\ DataGiven /\ Created \subseteq HeaderIds /\ \A h \in HeaderIds : GroupOf(h) \in Groups
      /\ \A h \in Live : GroupOf(h) = GroupOf(e) /\ h # e => fo[h].kept
      /\ fo \in Seq(Journals)
  BY FreshRun, RunNumbers
<1>2. /\ HeaderIds' = HeaderIds /\ e \in HeaderIds /\ fo'[e] = doc
      /\ \A h \in HeaderIds : h # e => fo'[h] = fo[h]
      /\ Live \subseteq HeaderIds /\ Live' \subseteq HeaderIds
      /\ e \in Live' <=> doc.live
      /\ e \in Live <=> fo[e].live
      /\ \A h \in HeaderIds : h # e => (h \in Live' <=> h \in Live)
  BY <1>1 DEF HeaderIds, Live
<1>3. ASSUME NEW g \in Groups
      PROVE  /\ \A h \in HeaderIds : h # e => (h \in Posted(g)' <=> h \in Posted(g))
             /\ e \in Posted(g)' <=> doc.live /\ fo[e].group = g /\ doc.lines \in {"full", "extra"}
             /\ e \in Posted(g) <=> fo[e].live /\ fo[e].group = g /\ fo[e].lines \in {"full", "extra"}
             /\ Posted(g) \subseteq HeaderIds /\ Posted(g)' \subseteq HeaderIds
  BY <1>2 DEF Posted
<1>4. GroupOf(e) = fo[e].group /\ GroupOf(e) \in Groups
  BY <1>1, <1>2 DEF GroupOf
<1>5. \A g \in Groups : g # GroupOf(e) => (g \in Complete' <=> g \in Complete)
  BY <1>2, <1>3, <1>4 DEF Complete
<1>6. \A g \in Groups : g # GroupOf(e) => (g \in StuckGroups' <=> g \in StuckGroups)
  BY <1>2, <1>4 DEF StuckGroups
<1>7. /\ GroupOf(e) \in Complete' <=>
           \/ doc.live /\ doc.lines \in {"full", "extra"}
           \/ \E h \in Posted(GroupOf(e)) : h # e
      /\ GroupOf(e) \in Complete <=>
           \/ fo[e].live /\ fo[e].lines \in {"full", "extra"}
           \/ \E h \in Posted(GroupOf(e)) : h # e
  <2> DEFINE g == fo[e].group
  <2>1. /\ g \in Groups
        /\ \A h \in HeaderIds : h # e => (h \in Posted(g)' <=> h \in Posted(g))
        /\ e \in Posted(g)' <=> doc.live /\ doc.lines \in {"full", "extra"}
        /\ e \in Posted(g) <=> fo[e].live /\ fo[e].lines \in {"full", "extra"}
        /\ Posted(g) \subseteq HeaderIds /\ Posted(g)' \subseteq HeaderIds
    BY <1>2, <1>4 DEF Posted
  <2>2. QED
    BY <1>2, <1>4, <2>1 DEF Complete
<1>8. /\ GroupOf(e) \in StuckGroups' <=>
           \/ doc.live /\ doc.kept
           \/ \E h \in Live : h # e /\ GroupOf(h) = GroupOf(e) /\ fo[h].kept
      /\ GroupOf(e) \in StuckGroups <=>
           \/ fo[e].live /\ fo[e].kept
           \/ \E h \in Live : h # e /\ GroupOf(h) = GroupOf(e) /\ fo[h].kept
  BY <1>2, <1>4 DEF StuckGroups, GroupOf
<1>9. \A h \in Posted(GroupOf(e)) : h # e => fo[h].kept /\ h \in Live /\ GroupOf(h) = GroupOf(e)
  BY <1>1 DEF Posted, GroupOf
<1>10. QED
  BY <1>5, <1>6, <1>7, <1>8, <1>9

(* A step that changes neither the status nor what the abstract            *)
(* specification sees of Finance is a stutter.                             *)
LEMMA SeesNothing ==
  ASSUME UNCHANGED fo
  PROVE  Complete' = Complete /\ StuckGroups' = StuckGroups
<1>1. HeaderIds' = HeaderIds /\ Live' = Live /\ \A g : Posted(g)' = Posted(g)
  BY DEF HeaderIds, Live, Posted
<1>2. QED
  BY <1>1 DEF Complete, StuckGroups

LEMMA Lifecycles ==
  ASSUME \/ UNCHANGED <<batch.status, Complete, StuckGroups>>
         \/ /\ batch.status \in {"PendingPosting", "Canceled"} /\ batch'.status = "Posting"
            /\ UNCHANGED <<Complete, StuckGroups>>
         \/ /\ batch.status = "Posting" /\ UNCHANGED <<batch.status, StuckGroups>>
            /\ \E g \in Groups : g \notin Complete /\ Complete' = Complete \cup {g}
         \/ /\ batch.status = "Posting" /\ UNCHANGED batch.status
            /\ \E g \in Groups : /\ Complete' \in {Complete, Complete \ {g}}
                                 /\ StuckGroups' \in {StuckGroups \ {g}, StuckGroups \cup {g}}
                                 /\ g \in Complete' => g \in StuckGroups'
         \/ /\ batch.status = "Posting" /\ batch'.status = "Posted" /\ Complete = Groups
            /\ UNCHANGED <<Complete, StuckGroups>>
         \/ /\ batch.status = "Posting" /\ batch'.status = "Canceled"
            /\ Complete \subseteq StuckGroups /\ UNCHANGED <<Complete, StuckGroups>>
  PROVE  [Lifecycle!Next]_(Lifecycle!vars)
BY DEF Complete, StuckGroups, Lifecycle!Next, Lifecycle!vars, Lifecycle!Submit, Lifecycle!Post,
   Lifecycle!Withdraw, Lifecycle!Finish, Lifecycle!GiveUp

(* The lines of a journal: Post of its group, unless it was there.         *)
LEMMA LinesArePosted ==
  ASSUME CleanInv, Ordered, Untouched, PostLines \/ PostLinesRejected
  PROVE  [Lifecycle!Next]_(Lifecycle!vars)
<1>0. PICK e : e = worker.key
  OBVIOUS
<1> DEFINE g == GroupOf(e)
<1>1. /\ worker.pc = "lines" /\ UNCHANGED batch /\ worker.pc \in InRun \ {"record"}
      /\ worker.pc \in Going
  BY DEF PostLines, PostLinesRejected, InRun, Going
<1>2. CASE UNCHANGED fo
  BY <1>1, <1>2, SeesNothing, Lifecycles
<1>3. CASE ~UNCHANGED fo
  <2>1. e \in Created /\ batch.status = "Posting"
    BY <1>0, <1>1, FreshRun DEF CleanInv, DataInv, LoopInv
  <2>2. \E written \in Lines :
          /\ written = "partial" => fo[e].lines = "none"
          /\ fo' = [fo EXCEPT ![e].lines = written]
          /\ written # "none"
    BY <1>0, <1>3 DEF PostLines, PostLinesRejected, Lines
  <2>3. PICK written \in Lines : /\ written = "partial" => fo[e].lines = "none"
                                 /\ fo' = [fo EXCEPT ![e].lines = written]
                                 /\ written # "none"
    BY <2>2
  <2>4. fo[e] \in Journals /\ g \in Groups
    BY <1>1, <2>1, FreshRun, RunNumbers
  <2>5. PICK doc : /\ fo' = [fo EXCEPT ![e] = doc] /\ doc.group = fo[e].group
                   /\ doc.live = fo[e].live /\ doc.kept = fo[e].kept /\ doc.lines = written
    <3> DEFINE d == [fo[e] EXCEPT !.lines = written]
    <3>1. /\ fo' = [fo EXCEPT ![e] = d] /\ d.group = fo[e].group
          /\ d.live = fo[e].live /\ d.kept = fo[e].kept /\ d.lines = written
      BY <2>3, <2>4 DEF Journals
    <3>2. QED
      BY <3>1
  <2>6. /\ \A k \in Groups : k # g => (k \in Complete' <=> k \in Complete)
        /\ \A k \in Groups : k # g => (k \in StuckGroups' <=> k \in StuckGroups)
        /\ g \in Complete => g \in Complete'
        /\ g \in StuckGroups' <=> g \in StuckGroups
    <3>1. fo[e].lines \in {"full", "extra"} => doc.lines \in {"full", "extra"}
      BY <2>3, <2>5 DEF Lines
    <3>2. /\ \A k \in Groups : k # GroupOf(e) => (k \in Complete' <=> k \in Complete)
          /\ \A k \in Groups : k # GroupOf(e) => (k \in StuckGroups' <=> k \in StuckGroups)
          /\ GroupOf(e) \in Complete' <=>
               \/ doc.live /\ doc.lines \in {"full", "extra"}
               \/ \E h \in Posted(GroupOf(e)) : h # e
          /\ GroupOf(e) \in Complete <=>
               \/ fo[e].live /\ fo[e].lines \in {"full", "extra"}
               \/ \E h \in Posted(GroupOf(e)) : h # e
          /\ GroupOf(e) \in StuckGroups' <=>
               \/ doc.live /\ doc.kept
               \/ \E h \in Live : h # e /\ GroupOf(h) = GroupOf(e) /\ fo[h].kept
          /\ GroupOf(e) \in StuckGroups <=>
               \/ fo[e].live /\ fo[e].kept
               \/ \E h \in Live : h # e /\ GroupOf(h) = GroupOf(e) /\ fo[h].kept
          /\ \A h \in Posted(GroupOf(e)) : h # e => fo[h].kept /\ h \in Live /\ GroupOf(h) = GroupOf(e)
      BY <1>1, <2>1, <2>5, EditShows
    <3>3. QED
      BY <2>1, <2>5, <3>1, <3>2
  <2>7. StuckGroups' = StuckGroups /\ Complete' \in {Complete, Complete \cup {g}}
    BY <2>4, <2>6 DEF Complete, StuckGroups
  <2>8. QED
    BY <1>1, <2>1, <2>4, <2>7, Lifecycles
<1>4. QED
  BY <1>2, <1>3

(* The rollback of a journal: Withdraw of its group.                       *)
LEMMA RollbackWithdraws ==
  ASSUME CleanInv, Ordered, Untouched, RollbackLines \/ RollbackHeader \/ RetainHeader
  PROVE  [Lifecycle!Next]_(Lifecycle!vars)
<1>0. PICK e : e = worker.created[worker.undo]
  OBVIOUS
<1> DEFINE g == GroupOf(e)
<1>1. /\ worker.pc = "rollback" /\ worker.undo > 0 /\ UNCHANGED batch
      /\ worker.pc \in InRun \ {"record"}
  BY DEF RollbackLines, RollbackHeader, RetainHeader, InRun
<1>2. e \in Created
  <2>1. worker \in Workers /\ worker.undo \in Nat /\ worker.undo <= Len(worker.created)
    BY <1>1 DEF CleanInv, JournalInv, TypeInv, TypeOK, WorkerOK, WorkerPosition, Workers
  <2>2. worker.created \in Seq(HeaderIds) /\ Len(worker.created) \in Nat
    BY <2>1 DEF Workers
  <2>3. QED
    BY <1>0, <1>1, <2>1, <2>2 DEF Created
<1>3. batch.status = "Posting" /\ fo[e] \in Journals /\ g \in Groups
  BY <1>1, <1>2, FreshRun, RunNumbers
<1>4. \E doc \in Journals :
        /\ fo' = [fo EXCEPT ![e] = doc] /\ doc.group = fo[e].group
        /\ doc.live => fo[e].live
        /\ doc.live /\ doc.lines \in {"full", "extra"} => doc.kept /\ doc.lines = fo[e].lines
  <2>1. CASE RollbackLines
    <3>1. PICK left \in {"none", "partial"} : fo' = [fo EXCEPT ![e].lines = left]
      BY <1>0, <2>1 DEF RollbackLines
    <3> DEFINE doc == [fo[e] EXCEPT !.lines = left]
    <3>2. /\ doc \in Journals /\ doc.group = fo[e].group /\ doc.live = fo[e].live
          /\ doc.lines \in {"none", "partial"} /\ fo' = [fo EXCEPT ![e] = doc]
      BY <1>3, <3>1 DEF Journals, Lines
    <3>3. QED
      BY <3>2
  <2>2. CASE RollbackHeader
    <3> DEFINE doc == [fo[e] EXCEPT !.live = FALSE]
    <3>1. /\ doc \in Journals /\ doc.group = fo[e].group /\ ~doc.live
          /\ fo' = [fo EXCEPT ![e] = doc]
      BY <1>0, <1>3, <2>2 DEF Journals, RollbackHeader
    <3>2. QED
      BY <3>1
  <2>3. CASE RetainHeader
    <3> DEFINE doc == [fo[e] EXCEPT !.kept = TRUE]
    <3>1. /\ doc \in Journals /\ doc.group = fo[e].group /\ doc.live = fo[e].live
          /\ doc.kept /\ doc.lines = fo[e].lines /\ fo' = [fo EXCEPT ![e] = doc]
      BY <1>0, <1>3, <2>3 DEF Journals, RetainHeader
    <3>2. QED
      BY <3>1
  <2>4. QED
    BY <2>1, <2>2, <2>3
<1>5. PICK doc \in Journals :
        /\ fo' = [fo EXCEPT ![e] = doc] /\ doc.group = fo[e].group
        /\ doc.live => fo[e].live
        /\ doc.live /\ doc.lines \in {"full", "extra"} => doc.kept /\ doc.lines = fo[e].lines
  BY <1>4
<1>6. /\ \A k \in Groups : k # g => (k \in Complete' <=> k \in Complete)
      /\ \A k \in Groups : k # g => (k \in StuckGroups' <=> k \in StuckGroups)
      /\ g \in Complete' => g \in Complete /\ g \in StuckGroups'
  <2> DEFINE others == \E h \in Posted(g) : h # e
  <2>1. /\ \A k \in Groups : k # g => (k \in Complete' <=> k \in Complete)
        /\ \A k \in Groups : k # g => (k \in StuckGroups' <=> k \in StuckGroups)
        /\ g \in Complete' <=> (doc.live /\ doc.lines \in {"full", "extra"}) \/ others
        /\ g \in Complete <=> (fo[e].live /\ fo[e].lines \in {"full", "extra"}) \/ others
        /\ g \in StuckGroups' <=>
             \/ doc.live /\ doc.kept
             \/ \E h \in Live : h # e /\ GroupOf(h) = g /\ fo[h].kept
        /\ \A h \in Posted(g) : h # e => fo[h].kept /\ h \in Live /\ GroupOf(h) = g
    <3>1. /\ \A k \in Groups : k # GroupOf(e) => (k \in Complete' <=> k \in Complete)
          /\ \A k \in Groups : k # GroupOf(e) => (k \in StuckGroups' <=> k \in StuckGroups)
          /\ GroupOf(e) \in Complete' <=>
               \/ doc.live /\ doc.lines \in {"full", "extra"}
               \/ \E h \in Posted(GroupOf(e)) : h # e
          /\ GroupOf(e) \in Complete <=>
               \/ fo[e].live /\ fo[e].lines \in {"full", "extra"}
               \/ \E h \in Posted(GroupOf(e)) : h # e
          /\ GroupOf(e) \in StuckGroups' <=>
               \/ doc.live /\ doc.kept
               \/ \E h \in Live : h # e /\ GroupOf(h) = GroupOf(e) /\ fo[h].kept
          /\ GroupOf(e) \in StuckGroups <=>
               \/ fo[e].live /\ fo[e].kept
               \/ \E h \in Live : h # e /\ GroupOf(h) = GroupOf(e) /\ fo[h].kept
          /\ \A h \in Posted(GroupOf(e)) : h # e => fo[h].kept /\ h \in Live /\ GroupOf(h) = GroupOf(e)
      BY <1>1, <1>2, <1>5, EditShows
    <3>2. QED
      BY <3>1
  <2>2. others => g \in StuckGroups'
    BY <2>1
  <2>3. QED
    BY <1>5, <2>1, <2>2
<1>7. /\ Complete' \in {Complete, Complete \ {g}}
      /\ StuckGroups' \in {StuckGroups \ {g}, StuckGroups \cup {g}}
  BY <1>3, <1>6 DEF Complete, StuckGroups
<1>8. QED
  BY <1>1, <1>3, <1>6, <1>7, Lifecycles

(* A journal without lines shows in no group.                              *)
LEMMA NewHeaderShowsNothing ==
  ASSUME TypeInv, CreateHeader
  PROVE  Complete' = Complete /\ StuckGroups' = StuckGroups
<1>1. fo \in Seq(Journals) /\ fo' = Append(fo, NewJournal(worker.at)) /\ Len(fo) \in Nat
  BY DEF TypeInv, TypeOK, FoOK, CreateHeader
<1>2. /\ HeaderIds' = HeaderIds \cup {Len(fo) + 1} /\ fo'[Len(fo) + 1] = NewJournal(worker.at)
      /\ \A h \in HeaderIds : fo'[h] = fo[h]
      /\ Len(fo) + 1 \notin HeaderIds
  BY <1>1 DEF HeaderIds
<1>3. \A g : Posted(g)' = Posted(g)
  BY <1>2 DEF Posted, Live, NewJournal
<1>4. StuckGroups' = StuckGroups
  BY <1>2 DEF StuckGroups, Live, NewJournal
<1>5. QED
  BY <1>3, <1>4 DEF Complete

LEMMA RefinesStep ==
  ASSUME CleanInv, CleanInv', [Next]_vars, Ordered', Untouched'
  PROVE  [Lifecycle!Next]_(Lifecycle!vars)
<1>1. CASE UNCHANGED vars
  BY <1>1, SeesNothing, Lifecycles DEF vars
<1>2. CASE Next
  <2>0. /\ TypeInv /\ OrderInv /\ DataInv /\ Ordered /\ Untouched
        /\ ~StoreFault /\ ~Crash /\ ~CreateHeaderUnanswered /\ ~PostLinesRepeated
        /\ batch \in [exists : BOOLEAN, status : BatchStatus, paused : BOOLEAN,
                      dfoIds : SUBSET HeaderIds]
    BY <1>2, OrderedBefore DEF CleanInv, JournalInv, TypeInv, TypeOK, BatchOK
  <2>1. ASSUME UNCHANGED fo, batch'.status = batch.status
        PROVE  [Lifecycle!Next]_(Lifecycle!vars)
    BY <2>1, SeesNothing, Lifecycles
  <2>2. ASSUME NEW s \in Submitters, Submit(s)
        PROVE  [Lifecycle!Next]_(Lifecycle!vars)
    <3>1. UNCHANGED fo
      BY <2>2 DEF Submit, SubmitValidate, SubmitPrepare, SubmitLookup,
         SubmitMarkPosted, SubmitRemoveFailed, SubmitStorePrepare,
         ReplaceDeleteGroups, ReplaceInsertGroups, ReplaceUpsertJob, SubmitAdd
    <3>2. CASE SubmitPrepare(s)
      <4>1. batch.status # "Posted"
        BY <2>0, <3>2 DEF SubmitPrepare, OrderInv, AskInv
      <4>2. batch'.status = "Posting"
        BY <2>0, <3>2 DEF SubmitPrepare, SetBatchStatus, OrderInv, StatusInv
      <4>3. batch.status \in {"PendingPosting", "Canceled", "Posting"}
        BY <2>0, <4>1 DEF BatchStatus
      <4>4. QED
        BY <3>1, <4>2, <4>3, SeesNothing, Lifecycles
    <3>3. CASE ~SubmitPrepare(s)
      <4>1. ~SubmitMarkPosted(s)
        BY <2>0 DEF SubmitMarkPosted, OrderInv, AskInv
      <4>2. UNCHANGED batch
        BY <2>2, <3>3, <4>1 DEF Submit, SubmitValidate, SubmitLookup, SubmitRemoveFailed,
           SubmitStorePrepare, ReplaceDeleteGroups, ReplaceInsertGroups, ReplaceUpsertJob, SubmitAdd
      <4>3. QED
        BY <2>1, <3>1, <4>2
    <3>4. QED
      BY <3>2, <3>3
  <2>3. ~Control
    BY <2>0, ControlTouches
  <2>4. ASSUME PickUp \/ PromoteDelayed \/ Stalled \/ Boot
        PROVE  UNCHANGED <<fo, batch>>
    BY <2>4 DEF PickUp, PromoteDelayed, Stalled, Boot, ReleaseRead, ForceRemove, Restore
  <2>5. CASE Processor
    <3>1. CASE CancelBatch
      <4>1. /\ worker.pc = "cancel" /\ UNCHANGED fo
        BY <3>1 DEF CancelBatch
      <4>2. batch.status = "Posting" /\ batch.exists
        BY <2>0, <4>1 DEF OrderInv, StatusInv, Underway
      <4>3. batch'.status = "Canceled"
        BY <2>0, <3>1, <4>2 DEF CancelBatch, SetBatchStatus
      <4>4. RestInv /\ ~Purged /\ CompletedGroups = {}
        <5>1. spent.deletes \in Nat /\ spent.pauses \in Nat
          BY <2>0 DEF TypeInv, TypeOK, RequestsOK
        <5>2. QED
          BY <2>0, <4>1, <4>2, <5>1 DEF DataInv, RestInv, InRun, Going, Purged, Untouched
      <4>5. \A h \in Live : fo[h].kept
        BY <4>4 DEF RestInv, LeftBehind, CompletedGroups
      <4>6. Complete \subseteq StuckGroups
        BY <4>5 DEF Complete, StuckGroups, Posted
      <4>7. QED
        BY <4>1, <4>2, <4>3, <4>6, SeesNothing, Lifecycles
    <3>2. CASE ~CancelBatch
      BY <2>1, <2>5, <3>2 DEF Processor, MarkActive, ListGroups, CheckPause, RecordWorkerStopped,
         MarkGroupActive, CompleteGroup, CountGroup, MarkCompleted, FailJob, Return, Throw
    <3>3. QED
      BY <3>1, <3>2
  <2>6. CASE PostGroup
    <3>1. CASE CreateHeader
      BY <2>0, <3>1, NewHeaderShowsNothing, Lifecycles DEF CreateHeader
    <3>2. CASE ReuseHeader \/ CreateHeaderRejected \/ SetCreatedHeader
      BY <2>1, <3>2 DEF ReuseHeader, CreateHeaderRejected, SetCreatedHeader
    <3>3. CASE PostLines \/ PostLinesRejected
      BY <2>0, <3>3, LinesArePosted
    <3>4. QED
      BY <2>0, <2>6, <3>1, <3>2, <3>3 DEF PostGroup
  <2>7. CASE RollBack
    <3>1. CASE RollbackLines \/ RollbackHeader \/ RetainHeader
      BY <2>0, <3>1, RollbackWithdraws
    <3>2. CASE StartRollback \/ RollbackDone \/ ResetGroups
      BY <2>1, <3>2 DEF StartRollback, RollbackDone, ResetGroups
    <3>3. CASE KeepRetainedIds
      <4>1. UNCHANGED fo /\ batch'.status = batch.status
        BY <2>0, <3>3 DEF KeepRetainedIds, AddDfoIds
      <4>2. QED
        BY <2>1, <4>1
    <3>4. QED
      BY <2>7, <3>1, <3>2, <3>3 DEF RollBack
  <2>8. CASE Settle
    <3>1. CASE StoreCreatedHeaderIds
      <4>1. UNCHANGED fo /\ batch'.status = batch.status
        BY <2>0, <3>1 DEF StoreCreatedHeaderIds, AddDfoIds
      <4>2. QED
        BY <2>1, <4>1
    <3>2. CASE SetPosted
      <4>1. worker.pc = "posted" /\ UNCHANGED fo
        BY <3>2 DEF SetPosted
      <4>2. batch.status = "Posting" /\ batch.exists
        BY <2>0, <4>1 DEF OrderInv, StatusInv, Underway
      <4>3. batch'.status = "Posted"
        BY <2>0, <3>2, <4>2 DEF SetPosted, SetBatchStatus
      <4>4. Complete' = Groups
        <5>1. PostedIsComplete'
          BY <4>3 DEF CleanInv, DataInv
        <5>2. QED
          BY <4>3, <5>1 DEF PostedIsComplete, Complete
      <4>5. QED
        BY <4>1, <4>2, <4>3, <4>4, SeesNothing, Lifecycles
    <3>3. QED
      BY <2>8, <3>1, <3>2 DEF Settle
  <2>9. QED
    BY <1>2, <2>0, <2>1, <2>2, <2>3, <2>4, <2>5, <2>6, <2>7, <2>8 DEF Next
<1>3. QED
  BY <1>1, <1>2

(* A processor whose requests come one at a time (or that gets one), and   *)
(* whose batch nobody pauses or deletes, implements the promise made for   *)
(* every posting: all of the batch or nothing (executePosting,             *)
(* rollbackAll, handlePostingSuccess and isFinalAttempt), for any number of*)
(* groups, attempts and resubmissions.                                     *)
THEOREM PostsAllOrNothing == Spec /\ [](Ordered /\ Untouched) => AllOrNothing
<1>1. Init => Lifecycle!Init
  <2> SUFFICES ASSUME Init PROVE Lifecycle!Init
    OBVIOUS
  <2>1. Live = {} /\ \A g : Posted(g) = {}
    BY DEF Init, Live, HeaderIds, Posted
  <2>2. QED
    BY <2>1 DEF Init, Lifecycle!Init
<1>2. CleanInv /\ CleanInv' /\ [Next]_vars /\ (Ordered /\ Untouched)'
        => [Lifecycle!Next]_(Lifecycle!vars)
  BY RefinesStep
<1>3. QED
  BY <1>1, <1>2, CleanInvInit, CleanInvStep, PTL DEF Spec, AllOrNothing, Lifecycle!Spec
=============================================================================
