----------------------- MODULE CashPosting_proofs ------------------------
(***************************************************************************)
(* What the posting of routed cash journals never does, for every number   *)
(* of journals, attempts, requests, pauses, deletions, faults, crashes and *)
(* cleanups by Finance, and for every division of the journals between the *)
(* routes: it writes no line into a journal of another batch; and, as long *)
(* as no answer of Finance is lost, it makes no second journal for a group *)
(* of the ledger route, posts no group of one submission into two journals *)
(* and no line twice on the other routes.  And what a posted batch names:  *)
(* of a batch requested once every journal that has lines, whatever        *)
(* happens, and of one requested again those of the ledger route, under    *)
(* the conditions of CashListedAgain.                                      *)
(***************************************************************************)
EXTENDS CashPosting, FiniteSetTheorems, SequenceTheorems, WellFoundedInduction, TLAPS

OnceLines == {"none", "partial", "full"}
LineStates == OnceLines \cup {"repeated", "miscounted", "extra"}
Journals == [group : 0..N, live : BOOLEAN, lines : LineStates, gone : 0..N]
GroupDocs == [status : {"absent", "pending", "active", "completed"},
              header : {NoHeader} \cup HeaderIds]
IsWorker(w) ==
  w = [pc |-> w.pc, attempt |-> w.attempt, snap |-> w.snap, at |-> w.at,
       key |-> w.key, created |-> w.created, undo |-> w.undo, failed |-> w.failed]

(* The processor is between looking for the journal of its group and       *)
(* writing that journal's lines.                                           *)
AtJournal == {"create", "relink", "verify", "record", "lines"}
InLoop == AtJournal \cup {"markGroup", "open", "complete"}

CashTyped ==
  /\ fo \in Seq(Journals)
  /\ groups \in [Groups -> GroupDocs]
  /\ IsWorker(worker) /\ worker.snap \in [Groups -> GroupDocs]
  /\ worker.at \in 0..N /\ worker.key \in {NoHeader} \cup HeaderIds
  /\ worker.pc \in InLoop => worker.at \in Groups
  /\ worker.pc \in AtJournal \ {"create"} => worker.key \in HeaderIds
  /\ outside \in [cleanups : Nat, lost : Nat]

(* ForeignUntouched rests on the comparison of the description: where the  *)
(* processor writes lines, the number it holds is of a journal of its      *)
(* group, and Finance gives a number away only when no run is under way.   *)
OwnKey == worker.pc \in {"record", "lines"} => fo[worker.key].group = worker.at

(* Where lines are listed before they are posted, none is there twice.     *)
NotRepeated ==
  outside.lost = 0 =>
    \A h \in HeaderIds : fo[h].group \notin LedgerGroups => fo[h].lines \in OnceLines

ForeignInv == CashTyped /\ OwnKey /\ ForeignUntouched /\ NotRepeated

LEMMA SeqFacts ==
  ASSUME CashTyped
  PROVE  /\ HeaderIds = 1..Len(fo) /\ Len(fo) \in Nat
         /\ \A h \in HeaderIds : fo[h] \in Journals
         /\ Groups = 1..N /\ N \in Nat
BY DurableQueueAssumption DEF CashTyped, HeaderIds, Groups, DurableQueueAssumption

(* What is typed by the numbers Finance has given out stays typed.         *)
LEMMA MoreNumbers ==
  ASSUME CashTyped, fo' \in Seq(Journals), Len(fo) <= Len(fo')
  PROVE  HeaderIds \subseteq HeaderIds' /\ GroupDocs \subseteq GroupDocs'
<1>1. HeaderIds \subseteq HeaderIds'
  BY DEF CashTyped, HeaderIds
<1>2. QED
  BY <1>1 DEF GroupDocs

LEMMA SameNumbers ==
  ASSUME CashTyped, UNCHANGED fo
  PROVE  /\ HeaderIds' = HeaderIds /\ GroupDocs' = GroupDocs /\ fo' \in Seq(Journals)
BY DEF CashTyped, HeaderIds, GroupDocs

-----------------------------------------------------------------------------
(* The queue.                                                              *)

(* The requests, BullMQ, the boot code and the wrapper of the processor    *)
(* touch no journal, and leave the processor where it was or outside the   *)
(* part that looks at journals.                                            *)
LEMMA QueueStep ==
  ASSUME CashTyped, Queue
  PROVE  /\ CashTyped' /\ UNCHANGED <<fo, outside>>
         /\ UNCHANGED worker \/ worker'.pc \notin AtJournal
<1>1. UNCHANGED <<fo, outside>>
  BY DEF Queue, Submit, SubmitValidate, SubmitPrepare, SubmitLookup,
     SubmitMarkPosted, SubmitRemoveFailed, SubmitStorePrepare,
     ReplaceDeleteGroups, ReplaceInsertGroups, ReplaceUpsertJob, SubmitAdd,
     Control, PauseRead, PauseSet, ResumeRead, ResumeClear, ResumeFindJob,
     RequeueCheck, RequeueAdd, MarkQueued, DeleteRead, DeletePause,
     DeleteRedisJob, DeletePurge, DeleteBatch, PickUp, PromoteDelayed,
     Stalled, Processor, MarkActive, ListGroups, CheckPause,
     RecordWorkerStopped, MarkGroupActive, CompleteGroup, CountGroup,
     MarkCompleted, FailJob, CancelBatch, Return, Throw, Crash, Boot,
     ReleaseRead, ForceRemove, Restore
<1>0. /\ IsWorker(worker) /\ groups \in [Groups -> GroupDocs]
      /\ N \in Nat /\ Groups = 1..N /\ fo' \in Seq(Journals)
      /\ HeaderIds' = HeaderIds /\ GroupDocs' = GroupDocs
  BY <1>1, SameNumbers, SeqFacts DEF CashTyped
<1>2. NoGroups \in [Groups -> GroupDocs] /\ [g \in Groups |-> Pending] \in [Groups -> GroupDocs]
  BY DEF NoGroups, Absent, Pending, GroupDocs
<1>3. /\ IsWorker(IdleWorker) /\ IdleWorker.snap \in [Groups -> GroupDocs]
      /\ IdleWorker.at = 0 /\ IdleWorker.key = NoHeader /\ IdleWorker.pc = "idle"
  BY <1>2 DEF IdleWorker, IsWorker
<1>4. ASSUME groups' \in [Groups -> GroupDocs], UNCHANGED worker
      PROVE  CashTyped'
  BY <1>0, <1>1, <1>4 DEF CashTyped
<1>5. ASSUME groups' \in [Groups -> GroupDocs],
             worker' = IdleWorker \/ worker' = [IdleWorker EXCEPT !.pc = "start", !.attempt = redis.attempts]
      PROVE  CashTyped' /\ worker'.pc \notin AtJournal
  <2>1. /\ IsWorker(worker)' /\ worker'.snap \in [Groups -> GroupDocs]
        /\ worker'.at = 0 /\ worker'.key = NoHeader /\ worker'.pc \in {"idle", "start"}
    BY <1>3, <1>5 DEF IsWorker
  <2>2. QED
    BY <1>0, <1>1, <1>5, <2>1 DEF CashTyped, InLoop, AtJournal
<1>6. ASSUME groups' \in [Groups -> GroupDocs], NEW p, p \notin AtJournal, Goto(p),
             p \in InLoop => worker.pc \in InLoop
      PROVE  CashTyped' /\ worker'.pc \notin AtJournal
  <2>1. /\ IsWorker(worker)' /\ worker'.snap = worker.snap /\ worker'.at = worker.at
        /\ worker'.key = worker.key /\ worker'.pc = p
    BY <1>0, <1>6 DEF IsWorker, Goto
  <2>2. QED
    BY <1>0, <1>1, <1>6, <2>1 DEF CashTyped
<1>7. CASE \E s \in Submitters : Submit(s)
  <2>1. groups' \in [Groups -> GroupDocs] /\ UNCHANGED worker
    BY <1>0, <1>2, <1>7 DEF Submit, SubmitValidate, SubmitPrepare, SubmitLookup,
       SubmitMarkPosted, SubmitRemoveFailed, SubmitStorePrepare,
       ReplaceDeleteGroups, ReplaceInsertGroups, ReplaceUpsertJob, SubmitAdd
  <2>2. QED
    BY <1>1, <1>4, <2>1 DEF Queue
<1>8. CASE Control \/ PromoteDelayed \/ Stalled \/ Boot
  <2>1. groups' \in [Groups -> GroupDocs] /\ UNCHANGED worker
    BY <1>0, <1>2, <1>8 DEF Control, PauseRead, PauseSet, ResumeRead, ResumeClear,
       ResumeFindJob, RequeueCheck, RequeueAdd, MarkQueued, DeleteRead, DeletePause,
       DeleteRedisJob, DeletePurge, DeleteBatch, PromoteDelayed, Stalled, Boot,
       ReleaseRead, ForceRemove, Restore
  <2>2. QED
    BY <1>1, <1>4, <2>1 DEF Queue
<1>9. CASE PickUp \/ Return \/ Throw \/ Crash
  <2>1. QED
    BY <1>0, <1>1, <1>5, <1>9 DEF PickUp, Return, Throw, Crash, Queue
<1>10. CASE \/ MarkActive \/ RecordWorkerStopped \/ CountGroup \/ MarkCompleted
            \/ FailJob \/ CancelBatch
  <2>1. groups' \in [Groups -> GroupDocs]
    BY <1>0, <1>10 DEF MarkActive, RecordWorkerStopped, CountGroup,
       MarkCompleted, FailJob, CancelBatch
  <2>2. \E p : p \notin InLoop /\ Goto(p)
    BY <1>10 DEF MarkActive, RecordWorkerStopped, CountGroup,
       MarkCompleted, FailJob, CancelBatch, InLoop, AtJournal
  <2>3. QED
    BY <1>0, <1>1, <1>6, <2>1, <2>2 DEF InLoop
<1>11. ASSUME worker.pc \in InLoop, NEW r \in GroupDocs, SetGroup(worker.at, r)
       PROVE  groups' \in [Groups -> GroupDocs]
  BY <1>0, <1>11 DEF SetGroup, CashTyped
<1>12. CASE MarkGroupActive \/ CompleteGroup
  <2>1. groups' \in [Groups -> GroupDocs]
    <3>1. worker.pc \in InLoop /\ worker.at \in Groups
      BY <1>12 DEF MarkGroupActive, CompleteGroup, InLoop, CashTyped
    <3>2. /\ [groups[worker.at] EXCEPT !.status = "active"] \in GroupDocs
          /\ [groups[worker.at] EXCEPT !.status = "completed"] \in GroupDocs
      BY <1>0, <3>1 DEF GroupDocs
    <3>3. QED
      BY <1>11, <1>12, <3>1, <3>2 DEF MarkGroupActive, CompleteGroup
  <2>2. \E p \in {"open", "count", "check"} : Goto(p)
    BY <1>12 DEF MarkGroupActive, CompleteGroup
  <2>3. worker.pc \in InLoop
    BY <1>12 DEF MarkGroupActive, CompleteGroup, InLoop
  <2>4. QED
    BY <1>0, <1>1, <1>6, <2>1, <2>2, <2>3 DEF AtJournal
<1>13. CASE ListGroups
  <2>1. PICK p \in {"fail", "check"} :
          worker' = [worker EXCEPT !.snap = groups, !.pc = p] /\ UNCHANGED groups
    BY <1>13 DEF ListGroups
  <2>2. /\ IsWorker(worker)' /\ worker'.snap = groups /\ worker'.at = worker.at
        /\ worker'.key = worker.key /\ worker'.pc = p
    BY <1>0, <2>1 DEF IsWorker
  <2>3. p \notin InLoop
    BY DEF InLoop, AtJournal
  <2>4. QED
    BY <1>0, <1>1, <2>1, <2>2, <2>3 DEF CashTyped, InLoop
<1>14. CASE CheckPause
  <2>1. CASE Goto("settle") \/ Goto("stop")
    BY <1>0, <1>1, <1>6, <1>14, <2>1 DEF CheckPause, InLoop, AtJournal
  <2>2. CASE \E g \in Unposted : worker' = [worker EXCEPT !.pc = "markGroup", !.at = g]
    <3>1. PICK g \in Unposted : worker' = [worker EXCEPT !.pc = "markGroup", !.at = g]
      BY <2>2
    <3>2. /\ IsWorker(worker)' /\ worker'.snap = worker.snap /\ worker'.at = g
          /\ worker'.key = worker.key /\ worker'.pc = "markGroup" /\ g \in 1..N
      BY <1>0, <3>1 DEF IsWorker, Unposted
    <3>3. worker'.pc \notin AtJournal
      BY <3>2 DEF AtJournal
    <3>4. UNCHANGED groups
      BY <1>14 DEF CheckPause
    <3>5. QED
      BY <1>0, <1>1, <3>2, <3>3, <3>4 DEF CashTyped
  <2>3. QED
    BY <1>14, <2>1, <2>2 DEF CheckPause
<1>15. QED
  BY <1>7, <1>8, <1>9, <1>10, <1>12, <1>13, <1>14 DEF Queue, Processor

-----------------------------------------------------------------------------
(* OneJournal rests on the question asked before a header is created: the  *)
(* answer is the journal of the group or none, and no other can appear     *)
(* while this run is at the group, unless the answer to a create is lost.  *)
UniqueJournal == \A g \in LedgerGroups : \A h, k \in Own(g) : h = k
NoneYet == Blind /\ worker.pc = "create" => Own(worker.at) = {}
OnlyKey == Blind /\ worker.pc \in AtJournal \ {"create"} => Own(worker.at) \subseteq {worker.key}

OneInv == outside.lost = 0 => UniqueJournal /\ NoneYet /\ OnlyKey

(* Steps that touch no journal, and go on to no journal.                   *)
LEMMA QuietStep ==
  ASSUME UNCHANGED <<fo, outside>>, UNCHANGED worker \/ worker'.pc \notin AtJournal
  PROVE  /\ OwnKey => OwnKey'
         /\ ForeignUntouched => ForeignUntouched'
         /\ NotRepeated => NotRepeated'
         /\ OneInv => OneInv'
<1>1. HeaderIds' = HeaderIds /\ \A g : Own(g)' = Own(g)
  BY DEF HeaderIds, Own, Live
<1>2. Own(worker.at)' = Own(worker'.at)
  BY DEF Own, Live, HeaderIds
<1>3. CASE UNCHANGED worker
  <2>1. Own(worker.at)' = Own(worker.at)
    BY <1>2, <1>3
  <2>2. QED
    BY <1>1, <1>3, <2>1 DEF OwnKey, ForeignUntouched, OneInv, UniqueJournal, NoneYet,
       OnlyKey, NotRepeated, Blind
<1>4. CASE worker'.pc \notin AtJournal
  <2>1. OwnKey' /\ NoneYet' /\ OnlyKey'
    BY <1>4 DEF AtJournal, OwnKey, NoneYet, OnlyKey
  <2>2. QED
    BY <1>1, <2>1 DEF ForeignUntouched, OneInv, UniqueJournal, NotRepeated
<1>5. QED
  BY <1>3, <1>4

(* Where the processor keeps its group, the types only depend on the rest. *)
LEMMA MovesAtGroup ==
  ASSUME CashTyped, fo' \in Seq(Journals), Len(fo) <= Len(fo'),
         groups' \in [Groups -> GroupDocs'], outside' \in [cleanups : Nat, lost : Nat],
         IsWorker(worker)', worker'.snap = worker.snap, worker'.at = worker.at,
         worker'.pc \in InLoop => worker.pc \in InLoop,
         worker'.key \in {NoHeader} \cup HeaderIds',
         worker'.pc \in AtJournal \ {"create"} => worker'.key \in HeaderIds'
  PROVE  CashTyped'
<1>1. GroupDocs \subseteq GroupDocs'
  BY MoreNumbers
<1>2. worker'.snap \in [Groups -> GroupDocs']
  BY <1>1 DEF CashTyped
<1>3. QED
  BY <1>2 DEF CashTyped

(* The ends of a run, and the calls that fail before a journal is written. *)
LEMMA EndStep ==
  ASSUME CashTyped,
         \/ QueryRejected \/ HeaderRejected \/ StoreAttemptedIds \/ CompleteBatch
         \/ ClearAttempted \/ SetPosted \/ StoreFault
  PROVE  CashTyped' /\ UNCHANGED <<fo, outside>> /\ worker'.pc \notin AtJournal
<1>1. UNCHANGED <<fo, groups, outside>> /\ IsWorker(worker)
  BY DEF QueryRejected, HeaderRejected, StoreAttemptedIds, CompleteBatch,
     ClearAttempted, SetPosted, StoreFault, CashTyped
<1>2. \E p : p \notin InLoop /\ Goto(p)
  BY DEF QueryRejected, HeaderRejected, StoreAttemptedIds, CompleteBatch,
     ClearAttempted, SetPosted, StoreFault, InLoop, AtJournal
<1>3. PICK p : p \notin InLoop /\ Goto(p)
  BY <1>2
<1>4. /\ IsWorker(worker)' /\ worker'.snap = worker.snap /\ worker'.at = worker.at
      /\ worker'.key = worker.key /\ worker'.pc = p
  BY <1>1, <1>3 DEF Goto, IsWorker
<1>5. p \notin AtJournal
  BY <1>3 DEF InLoop
<1>6. CashTyped'
  BY <1>1, <1>3, <1>4, <1>5, SameNumbers, MovesAtGroup, SeqFacts DEF CashTyped
<1>7. QED
  BY <1>1, <1>4, <1>5, <1>6

LEMMA ChangeJournal ==
  ASSUME CashTyped, NEW h \in HeaderIds, NEW j \in Journals, fo' = [fo EXCEPT ![h] = j]
  PROVE  /\ fo' \in Seq(Journals) /\ Len(fo') = Len(fo)
         /\ HeaderIds' = HeaderIds /\ GroupDocs' = GroupDocs
         /\ fo'[h] = j /\ \A k \in HeaderIds \ {h} : fo'[k] = fo[k]
<1>1. fo \in Seq(Journals) /\ h \in 1..Len(fo)
  BY DEF CashTyped, HeaderIds
<1>2. fo' \in Seq(Journals) /\ Len(fo') = Len(fo)
  BY <1>1
<1>3. HeaderIds' = HeaderIds /\ GroupDocs' = GroupDocs
  BY <1>2 DEF HeaderIds, GroupDocs
<1>4. fo'[h] = j /\ \A k \in HeaderIds \ {h} : fo'[k] = fo[k]
  BY <1>1 DEF HeaderIds
<1>5. QED
  BY <1>2, <1>3, <1>4

(* Finance takes journals away, and gives their numbers to others, but     *)
(* makes none for the batch.                                               *)
LEMMA FinanceStep ==
  ASSUME CashTyped, Finance
  PROVE  /\ CashTyped'
         /\ OwnKey => OwnKey'
         /\ ForeignUntouched => ForeignUntouched'
         /\ NotRepeated => NotRepeated'
         /\ OneInv => OneInv'
<1>1. PICK h \in HeaderIds : FinanceDelete(h) \/ FinanceReuse(h)
  BY DEF Finance
<1>2. fo[h] \in Journals /\ UNCHANGED <<groups, worker>>
  BY <1>1, SeqFacts DEF FinanceDelete, FinanceReuse
<1>3. outside' \in [cleanups : Nat, lost : Nat] /\ outside'.lost = outside.lost
  BY <1>1 DEF FinanceDelete, FinanceReuse, Suffer, CashTyped
<1>4. PICK j \in Journals :
        /\ fo' = [fo EXCEPT ![h] = j]
        /\ \/ ~j.live /\ j.group = fo[h].group /\ j.lines = fo[h].lines
           \/ j.group = 0 /\ j.lines = "none" /\ worker.pc = "idle"
  <2>1. CASE FinanceDelete(h)
    <3> DEFINE gone == IF fo[h].lines \in {"full", "extra"} THEN fo[h].group ELSE fo[h].gone
               j == [fo[h] EXCEPT !.live = FALSE, !.gone = gone]
    <3>1. j \in Journals /\ ~j.live /\ j.group = fo[h].group /\ j.lines = fo[h].lines
      BY <1>2 DEF Journals
    <3>2. fo' = [fo EXCEPT ![h] = j]
      BY <2>1, <1>2, SeqFacts DEF FinanceDelete, CashTyped
    <3>3. QED
      BY <3>1, <3>2
  <2>2. CASE FinanceReuse(h)
    <3> DEFINE j == [fo[h] EXCEPT !.live = TRUE, !.group = 0, !.lines = "none"]
    <3>1. j \in Journals /\ j.group = 0 /\ j.lines = "none"
      <4>1. 0 \in 0..N /\ "none" \in LineStates
        BY SeqFacts DEF LineStates, OnceLines
      <4>2. QED
        BY <1>2, <4>1 DEF Journals
    <3>2. fo' = [fo EXCEPT ![h] = j] /\ worker.pc = "idle"
      BY <2>2, <1>2, SeqFacts DEF FinanceReuse, CashTyped
    <3>3. QED
      BY <3>1, <3>2
  <2>3. QED
    BY <1>1, <2>1, <2>2
<1>5. /\ fo' \in Seq(Journals) /\ Len(fo') = Len(fo)
      /\ HeaderIds' = HeaderIds /\ GroupDocs' = GroupDocs
      /\ fo'[h] = j /\ \A k \in HeaderIds \ {h} : fo'[k] = fo[k]
  BY <1>4, ChangeJournal
<1>6. CashTyped'
  BY <1>2, <1>3, <1>5 DEF CashTyped, IsWorker
<1>7. OwnKey => OwnKey'
  BY <1>2, <1>4, <1>5 DEF OwnKey, CashTyped, AtJournal
<1>8. ForeignUntouched => ForeignUntouched'
  BY <1>4, <1>5 DEF ForeignUntouched, Own, Live
<1>9. \A g \in Groups : Own(g)' \subseteq Own(g)
  BY <1>4, <1>5, SeqFacts DEF Own, Live
<1>10. worker.pc \in AtJournal => Own(worker.at)' \subseteq Own(worker.at)
  BY <1>2, <1>9 DEF CashTyped, InLoop, Own, Live
<1>11. NotRepeated => NotRepeated'
  BY <1>3, <1>4, <1>5 DEF NotRepeated, OnceLines
<1>12. OneInv => OneInv'
  BY <1>2, <1>3, <1>9, <1>10, ResumablePostingAssumption
  DEF OneInv, UniqueJournal, NoneYet, OnlyKey, AtJournal, Blind, ResumablePostingAssumption
<1>13. QED
  BY <1>6, <1>7, <1>8, <1>11, <1>12

-----------------------------------------------------------------------------
(* Looking for the journal of a group.                                     *)

LEMMA MarkersFinite ==
  ASSUME CashTyped, NEW g PROVE MarkerHeaders(g) \in SUBSET HeaderIds /\ IsFiniteSet(MarkerHeaders(g))
<1>1. IsFiniteSet(HeaderIds)
  BY SeqFacts, FS_Interval
<1>2. QED
  BY <1>1, FS_Subset, FS_EmptySet DEF MarkerHeaders, MarkedHeaders

(* Without prefixes Finance answers with the journals of the group.        *)
LEMMA MarkersAreOwn ==
  ASSUME Prefixes = {}, NEW g \in LedgerGroups PROVE MarkerHeaders(g) = Own(g)
BY DEF MarkerHeaders, MarkedHeaders, Own, Live

LEMMA FindStep ==
  ASSUME CashTyped, FindHeader \/ RelinkHeader \/ VerifyHeader
  PROVE  /\ CashTyped'
         /\ OwnKey => OwnKey'
         /\ ForeignUntouched => ForeignUntouched'
         /\ NotRepeated => NotRepeated'
         /\ Prefixes = {} => (OneInv => OneInv')
<1>0. /\ IsWorker(worker) /\ worker.at \in Groups /\ UNCHANGED <<fo, outside>>
      /\ worker.pc \in InLoop
  BY DEF FindHeader, RelinkHeader, VerifyHeader, CashTyped, InLoop, AtJournal
<1>1. /\ HeaderIds' = HeaderIds /\ GroupDocs' = GroupDocs /\ fo' \in Seq(Journals)
      /\ \A g : Own(g)' = Own(g)
  BY <1>0, SameNumbers DEF Own, Live
<1>2. (ForeignUntouched => ForeignUntouched') /\ (NotRepeated => NotRepeated')
  BY <1>0, <1>1 DEF ForeignUntouched, NotRepeated
<1>3. CASE FindHeader
  <2> DEFINE recorded == worker.snap[worker.at].header
             marked == MarkerHeaders(worker.at)
  <2>1. recorded \in {NoHeader} \cup HeaderIds
    BY <1>0 DEF CashTyped, GroupDocs
  <2>2. PICK k \in {NoHeader} \cup HeaderIds :
          \E p \in {"verify", "relink", "create"} :
            /\ worker' = [worker EXCEPT !.key = k, !.undo = 0, !.pc = p]
            /\ \/ Cardinality(marked) = 1 /\ k \in marked /\ p # "create"
               \/ Cardinality(marked) # 1 /\ k = NoHeader /\ p = "create"
               \/ Cardinality(marked) # 1 /\ k # NoHeader /\ p # "create"
    <3>1. CASE Cardinality(marked) = 1
      <4>1. PICK h \in marked :
              worker' = [worker EXCEPT !.key = h, !.undo = 0,
                              !.pc = IF h = recorded THEN "verify" ELSE "relink"]
        BY <1>3, <3>1 DEF FindHeader
      <4>2. h \in HeaderIds
        BY MarkersFinite
      <4>3. QED
        BY <3>1, <4>1, <4>2
    <3>2. CASE Cardinality(marked) # 1
      <4>1. worker' = [worker EXCEPT !.key = recorded, !.undo = 0,
                            !.pc = IF recorded = NoHeader THEN "create" ELSE "verify"]
        BY <1>3, <3>2 DEF FindHeader
      <4>2. QED
        BY <2>1, <3>2, <4>1
    <3>3. QED
      BY <3>1, <3>2
  <2> HIDE DEF recorded
  <2>3. PICK p \in {"verify", "relink", "create"} :
            /\ worker' = [worker EXCEPT !.key = k, !.undo = 0, !.pc = p]
            /\ \/ Cardinality(marked) = 1 /\ k \in marked /\ p # "create"
               \/ Cardinality(marked) # 1 /\ k = NoHeader /\ p = "create"
               \/ Cardinality(marked) # 1 /\ k # NoHeader /\ p # "create"
    BY <2>2
  <2>4. /\ IsWorker(worker)' /\ worker'.snap = worker.snap /\ worker'.at = worker.at
        /\ worker'.key = k /\ worker'.pc = p
    BY <1>0, <2>3 DEF IsWorker
  <2>5. p # "create" => k \in HeaderIds
    BY <2>3, MarkersFinite
  <2>6. groups' \in [Groups -> GroupDocs']
    BY <1>1, <1>3 DEF FindHeader, CashTyped
  <2>7. CashTyped'
    BY <1>0, <1>1, <2>2, <2>4, <2>5, <2>6, MovesAtGroup, SeqFacts DEF AtJournal, CashTyped
  <2>8. OwnKey'
    BY <2>3, <2>4 DEF OwnKey
  <2>9. Prefixes = {} => (OneInv => OneInv')
    <3>0. SUFFICES ASSUME Prefixes = {}, outside.lost = 0, UniqueJournal
                   PROVE  UniqueJournal' /\ NoneYet' /\ OnlyKey'
      BY <1>0 DEF OneInv
    <3>1. UniqueJournal'
      BY <1>0, <1>1, <3>0 DEF UniqueJournal
    <3>2. CASE ~Blind
      BY <2>4, <3>1, <3>2 DEF Blind, NoneYet, OnlyKey
    <3>3. CASE Blind
      <4>1. marked = Own(worker.at)
        BY <3>0, <3>3, MarkersAreOwn DEF Blind
      <4>2. IsFiniteSet(marked)
        BY MarkersFinite
      <4> HIDE DEF marked
      <4>3. Cardinality(marked) = 1 /\ k \in marked => marked = {k}
        BY <4>2, FS_Singleton
      <4>4. ASSUME Cardinality(marked) # 1 PROVE marked = {}
        <5>1. \A h \in marked : marked = {h}
          BY <3>0, <3>3, <4>1 DEF UniqueJournal, Blind
        <5>2. QED
          BY <4>2, <4>4, <5>1, FS_Singleton
      <4>5. Own(worker.at)' = marked
        BY <1>0, <1>1, <2>4, <4>1 DEF Own, Live, HeaderIds
      <4>6. NoneYet' /\ OnlyKey'
        BY <2>3, <2>4, <4>3, <4>4, <4>5 DEF NoneYet, OnlyKey
      <4>7. QED
        BY <3>1, <4>6
    <3>4. QED
      BY <3>2, <3>3
  <2>10. QED
    BY <1>2, <2>7, <2>8, <2>9
<1>4. CASE RelinkHeader
  <2>1. /\ worker.pc = "relink" /\ Goto("verify") /\ worker.key \in HeaderIds
        /\ SetGroup(worker.at, [groups[worker.at] EXCEPT !.header = worker.key])
    BY <1>4 DEF RelinkHeader, CashTyped, AtJournal
  <2>2. /\ IsWorker(worker)' /\ worker'.snap = worker.snap /\ worker'.at = worker.at
        /\ worker'.key = worker.key /\ worker'.pc = "verify"
    BY <1>0, <2>1 DEF IsWorker, Goto
  <2>3. groups' \in [Groups -> GroupDocs']
    BY <1>0, <1>1, <2>1 DEF SetGroup, CashTyped, GroupDocs
  <2>4. CashTyped'
    BY <1>0, <1>1, <2>1, <2>2, <2>3, MovesAtGroup, SeqFacts DEF CashTyped
  <2>5. Own(worker.at)' = Own(worker.at)
    BY <1>0, <2>2 DEF Own, Live, HeaderIds
  <2>6. OneInv => OneInv'
    BY <1>0, <1>1, <2>1, <2>2, <2>5
    DEF OneInv, UniqueJournal, NoneYet, OnlyKey, AtJournal, Blind
  <2>7. QED
    BY <1>2, <2>2, <2>4, <2>6 DEF OwnKey
<1>5. CASE VerifyHeader
  <2> DEFINE j == fo[worker.key]
  <2>1. worker.pc = "verify" /\ worker.key \in HeaderIds /\ UNCHANGED groups
    BY <1>5 DEF VerifyHeader, CashTyped, AtJournal
  <2>2. \/ (~j.live \/ j.group # worker.at) /\ Goto("create")
        \/ /\ j.live /\ j.group = worker.at
           /\ \E p \in {"complete", "lines"} :
                worker' = [worker EXCEPT !.created = Append(worker.created, worker.key),
                                         !.pc = p]
    BY <1>5 DEF VerifyHeader
  <2>3. /\ IsWorker(worker)' /\ worker'.snap = worker.snap /\ worker'.at = worker.at
        /\ worker'.key = worker.key
        /\ \/ (~j.live \/ j.group # worker.at) /\ worker'.pc = "create"
           \/ j.live /\ j.group = worker.at /\ worker'.pc \in {"complete", "lines"}
    BY <1>0, <2>2 DEF IsWorker, Goto
  <2>4. CashTyped'
    BY <1>0, <1>1, <2>1, <2>3, MovesAtGroup, SeqFacts DEF CashTyped
  <2>5. OwnKey'
    BY <1>0, <2>3 DEF OwnKey
  <2>6. Own(worker.at)' = Own(worker.at)
    BY <1>0, <2>3 DEF Own, Live, HeaderIds
  <2>7. worker.key \in Own(worker.at) => j.live /\ j.group = worker.at
    BY DEF Own, Live
  <2>8. OneInv => OneInv'
    BY <1>0, <1>1, <2>1, <2>3, <2>6, <2>7
    DEF OneInv, UniqueJournal, NoneYet, OnlyKey, AtJournal, Blind
  <2>9. QED
    BY <1>2, <2>4, <2>5, <2>8
<1>6. QED
  BY <1>3, <1>4, <1>5

-----------------------------------------------------------------------------
(* Creating a journal, and recording it.                                   *)

LEMMA CreateStep ==
  ASSUME CashTyped, CreateHeader \/ HeaderUnanswered
  PROVE  /\ CashTyped'
         /\ OwnKey'
         /\ ForeignUntouched => ForeignUntouched'
         /\ NotRepeated => NotRepeated'
         /\ OneInv => OneInv'
<1>0. /\ IsWorker(worker) /\ worker.at \in Groups /\ worker.pc = "create"
      /\ fo' = Append(fo, NewJournal(worker.at)) /\ UNCHANGED groups
      /\ fo \in Seq(Journals) /\ groups \in [Groups -> GroupDocs]
  BY DEF CreateHeader, HeaderUnanswered, CashTyped, InLoop, AtJournal
<1>1. NewJournal(worker.at) \in Journals
  BY <1>0, SeqFacts DEF NewJournal, Journals, LineStates, OnceLines
<1>2. /\ fo' \in Seq(Journals) /\ Len(fo') = Len(fo) + 1 /\ Len(fo) \in Nat
      /\ fo'[Len(fo) + 1] = NewJournal(worker.at)
      /\ \A h \in HeaderIds : fo'[h] = fo[h]
  BY <1>0, <1>1 DEF HeaderIds
<1>3. HeaderIds' = HeaderIds \cup {Len(fo) + 1} /\ Len(fo) + 1 \notin HeaderIds
  BY <1>2 DEF HeaderIds
<1>4. GroupDocs \subseteq GroupDocs'
  BY <1>2, MoreNumbers
<1>5. groups' \in [Groups -> GroupDocs']
  BY <1>0, <1>4
<1>6. \A g \in Groups : g # worker.at => Own(g)' = Own(g)
  BY <1>2, <1>3 DEF Own, Live, NewJournal
<1>7. Own(worker.at) = {} =>
        \A h \in HeaderIds' : fo'[h].live /\ fo'[h].group = worker.at => h = Len(fo) + 1
  BY <1>2, <1>3 DEF Own, Live
<1>8. ForeignUntouched => ForeignUntouched'
  BY <1>2, <1>3 DEF ForeignUntouched, Own, Live, NewJournal
<1>9. CASE CreateHeader
  <2>1. worker' = [worker EXCEPT !.pc = "record", !.key = Len(fo) + 1,
                              !.created = Append(worker.created, Len(fo) + 1)]
        /\ UNCHANGED outside
    BY <1>9 DEF CreateHeader
  <2>2. /\ IsWorker(worker)' /\ worker'.snap = worker.snap /\ worker'.at = worker.at
        /\ worker'.key = Len(fo) + 1 /\ worker'.pc = "record"
    BY <1>0, <2>1 DEF IsWorker
  <2>3. CashTyped'
    BY <1>0, <1>2, <1>3, <1>5, <2>1, <2>2, MovesAtGroup DEF CashTyped, InLoop, AtJournal
  <2>4. OwnKey'
    BY <1>2, <2>2 DEF OwnKey, NewJournal
  <2>5. OneInv => OneInv'
    <3> SUFFICES ASSUME outside.lost = 0, UniqueJournal, NoneYet
                 PROVE  UniqueJournal' /\ NoneYet' /\ OnlyKey'
      BY <2>1 DEF OneInv
    <3>1. Blind => \A h \in HeaderIds' :
                     fo'[h].live /\ fo'[h].group = worker.at => h = Len(fo) + 1
      BY <1>0, <1>7 DEF NoneYet
    <3>2. UniqueJournal'
      BY <1>6, <3>1, ResumablePostingAssumption
      DEF UniqueJournal, Own, Live, Blind, ResumablePostingAssumption
    <3>3. NoneYet' /\ OnlyKey'
      BY <2>2, <3>1 DEF NoneYet, OnlyKey, Own, Live, Blind
    <3>4. QED
      BY <3>2, <3>3
  <2>6. NotRepeated => NotRepeated'
    BY <1>2, <1>3, <2>1 DEF NotRepeated, NewJournal, OnceLines
  <2>7. QED
    BY <1>8, <2>3, <2>4, <2>5, <2>6
<1>10. CASE HeaderUnanswered
  <2>1. (UNCHANGED worker \/ Goto("caught")) /\ Suffer("lost", MaxLost)
    BY <1>10 DEF HeaderUnanswered
  <2>2. /\ IsWorker(worker)' /\ worker'.snap = worker.snap /\ worker'.at = worker.at
        /\ worker'.key = worker.key /\ worker'.pc \in {"create", "caught"}
    BY <1>0, <2>1 DEF IsWorker, Goto
  <2>3. outside' \in [cleanups : Nat, lost : Nat] /\ outside'.lost # 0
    BY <2>1 DEF Suffer, CashTyped
  <2>4. CashTyped'
    BY <1>0, <1>2, <1>3, <1>5, <2>2, <2>3, MovesAtGroup DEF CashTyped, InLoop, AtJournal
  <2>5. QED
    BY <1>8, <2>2, <2>3, <2>4 DEF OwnKey, OneInv, NotRepeated
<1>11. QED
  BY <1>9, <1>10

LEMMA RecordStep ==
  ASSUME CashTyped, SetCreatedHeader \/ RecreateHeader
  PROVE  /\ CashTyped'
         /\ OwnKey => OwnKey'
         /\ ForeignUntouched => ForeignUntouched'
         /\ NotRepeated => NotRepeated'
         /\ OneInv => OneInv'
<1>0. /\ IsWorker(worker) /\ worker.at \in Groups /\ UNCHANGED <<fo, outside>>
      /\ worker.pc \in {"record", "lines"} /\ worker.key \in HeaderIds
  BY DEF SetCreatedHeader, RecreateHeader, CashTyped, InLoop, AtJournal
<1>1. /\ HeaderIds' = HeaderIds /\ GroupDocs' = GroupDocs /\ fo' \in Seq(Journals)
      /\ \A g : Own(g)' = Own(g)
  BY <1>0, SameNumbers DEF Own, Live
<1>2. groups' \in [Groups -> GroupDocs']
  BY <1>0, <1>1 DEF SetCreatedHeader, RecreateHeader, SetGroup, CashTyped, GroupDocs
<1>3. /\ IsWorker(worker)' /\ worker'.snap = worker.snap /\ worker'.at = worker.at
      /\ worker'.key = worker.key
      /\ \/ worker'.pc \in {"lines", "caught"}
         \/ worker'.pc = "create" /\ ~fo[worker.key].live
  <2>1. CASE SetCreatedHeader \/ Goto("caught")
    BY <1>0, <2>1 DEF SetCreatedHeader, IsWorker, Goto
  <2>2. CASE RecreateHeader /\ ~Goto("caught")
    <3>1. PICK c : worker' = [worker EXCEPT !.pc = "create", !.undo = worker.undo + 1,
                                            !.created = c]
      BY <2>2 DEF RecreateHeader
    <3>2. ~fo[worker.key].live
      BY <2>2 DEF RecreateHeader
    <3>3. QED
      BY <1>0, <3>1, <3>2 DEF IsWorker
  <2>3. QED
    BY <2>1, <2>2
<1>4. CashTyped'
  BY <1>0, <1>1, <1>2, <1>3, MovesAtGroup, SeqFacts DEF CashTyped, InLoop, AtJournal
<1>5. OwnKey => OwnKey'
  BY <1>0, <1>3 DEF OwnKey
<1>6. (ForeignUntouched => ForeignUntouched') /\ (NotRepeated => NotRepeated')
  BY <1>0, <1>1 DEF ForeignUntouched, NotRepeated
<1>7. OneInv => OneInv'
  <2>1. Own(worker.at)' = Own(worker.at)
    BY <1>0, <1>3 DEF Own, Live, HeaderIds
  <2>2. worker.key \in Own(worker.at) => fo[worker.key].live
    BY DEF Own, Live
  <2>3. QED
    BY <1>0, <1>1, <1>3, <2>1, <2>2
    DEF OneInv, UniqueJournal, NoneYet, OnlyKey, AtJournal, Blind
<1>8. QED
  BY <1>4, <1>5, <1>6, <1>7

-----------------------------------------------------------------------------
(* Writing lines, into a journal of the group only.                        *)

LEMMA PartsOfLines ==
  ASSUME NEW l \in LineStates
  PROVE  /\ LinesPosted(l) \in LineStates /\ PartlyPosted(l) \subseteq LineStates
         /\ ~Blind /\ l \in OnceLines =>
              LinesPosted(l) \in OnceLines /\ PartlyPosted(l) \subseteq OnceLines
BY DEF LineStates, OnceLines, LinesPosted, PartlyPosted, Uneven

LEMMA LinesStep ==
  ASSUME CashTyped, PostLines \/ PostLinesRepeated \/ PostLinesRejected
  PROVE  /\ CashTyped'
         /\ OwnKey'
         /\ OwnKey => (ForeignUntouched => ForeignUntouched')
         /\ OwnKey => (NotRepeated => NotRepeated')
         /\ OneInv => OneInv'
<1>0. /\ IsWorker(worker) /\ worker.at \in Groups /\ worker.pc = "lines"
      /\ worker.key \in HeaderIds /\ fo[worker.key] \in Journals
      /\ fo[worker.key].lines \in LineStates
  BY SeqFacts DEF PostLines, PostLinesRepeated, PostLinesRejected, AtLines, CashTyped,
     InLoop, AtJournal, Journals
<1>1. PICK after \in LineStates :
        /\ \E p \in {"complete", "caught"} : WriteLines(after, p)
        /\ \/ UNCHANGED outside
           \/ outside' \in [cleanups : Nat, lost : Nat] /\ outside'.lost # 0
        /\ \/ outside'.lost # 0
           \/ UNCHANGED outside /\ (~Blind /\ fo[worker.key].lines \in OnceLines => after \in OnceLines)
  <2>1. CASE PostLines
    BY <1>0, <2>1, PartsOfLines DEF PostLines
  <2>2. CASE PostLinesRepeated
    <3>1. outside' \in [cleanups : Nat, lost : Nat] /\ outside'.lost # 0
      BY <2>2 DEF PostLinesRepeated, Suffer, CashTyped
    <3>2. QED
      BY <2>2, <3>1 DEF PostLinesRepeated, LineStates, Uneven
  <2>3. CASE PostLinesRejected
    BY <1>0, <2>3, PartsOfLines DEF PostLinesRejected
  <2>4. QED
    BY <2>1, <2>2, <2>3
<1>2. PICK p \in {"complete", "caught"} : WriteLines(after, p)
  BY <1>1
<1>3. /\ IsWorker(worker)' /\ worker'.snap = worker.snap /\ worker'.at = worker.at
      /\ worker'.key = worker.key /\ worker'.pc = p /\ UNCHANGED groups
  BY <1>0, <1>2 DEF WriteLines, Goto, IsWorker
<1>4. PICK j \in Journals :
        /\ fo' = [fo EXCEPT ![worker.key] = j]
        /\ j.live = fo[worker.key].live /\ j.group = fo[worker.key].group /\ j.lines = after
  <2> DEFINE j == [fo[worker.key] EXCEPT !.lines = after]
  <2>1. /\ j \in Journals /\ j.live = fo[worker.key].live
        /\ j.group = fo[worker.key].group /\ j.lines = after
    BY <1>0 DEF Journals
  <2>2. fo' = [fo EXCEPT ![worker.key] = j]
    BY <1>2 DEF WriteLines
  <2>3. QED
    BY <2>1, <2>2
<1>5. /\ fo' \in Seq(Journals) /\ Len(fo') = Len(fo)
      /\ HeaderIds' = HeaderIds /\ GroupDocs' = GroupDocs
      /\ fo'[worker.key] = j /\ \A k \in HeaderIds \ {worker.key} : fo'[k] = fo[k]
  BY <1>0, <1>4, ChangeJournal
<1>6. p \notin AtJournal
  BY DEF AtJournal
<1>7. CashTyped'
  BY <1>0, <1>1, <1>3, <1>5, <1>6, MovesAtGroup, SeqFacts DEF CashTyped, InLoop, AtJournal
<1>8. OwnKey'
  BY <1>3, <1>6 DEF OwnKey, AtJournal
<1>9. ASSUME OwnKey, ForeignUntouched PROVE ForeignUntouched'
  <2>1. j.group # 0
    BY <1>0, <1>4, <1>9, SeqFacts DEF OwnKey
  <2>2. QED
    BY <1>5, <1>9, <2>1 DEF ForeignUntouched, Own, Live
<1>10. ASSUME OwnKey, NotRepeated PROVE NotRepeated'
  <2> SUFFICES ASSUME outside'.lost = 0, NEW h \in HeaderIds, fo'[h].group \notin LedgerGroups
               PROVE  fo'[h].lines \in OnceLines
    BY <1>5 DEF NotRepeated
  <2>1. UNCHANGED outside /\ (~Blind /\ fo[worker.key].lines \in OnceLines => after \in OnceLines)
    BY <1>1
  <2>2. CASE h = worker.key
    <3>1. ~Blind
      BY <1>0, <1>4, <1>5, <1>10, <2>2 DEF OwnKey, Blind
    <3>2. fo[h].lines \in OnceLines
      BY <1>4, <1>5, <1>10, <2>1, <2>2 DEF NotRepeated
    <3>3. QED
      BY <1>4, <1>5, <2>1, <2>2, <3>1, <3>2
  <2>3. CASE h # worker.key
    BY <1>5, <1>10, <2>1, <2>3 DEF NotRepeated
  <2>4. QED
    BY <2>2, <2>3
<1>11. ASSUME OneInv PROVE OneInv'
  <2>1. \A g : Own(g)' = Own(g)
    BY <1>4, <1>5 DEF Own, Live
  <2>2. outside'.lost = 0 => outside.lost = 0
    BY <1>1
  <2>3. NoneYet' /\ OnlyKey'
    BY <1>3, <1>6 DEF NoneYet, OnlyKey, AtJournal
  <2>4. QED
    BY <1>11, <2>1, <2>2, <2>3 DEF OneInv, UniqueJournal
<1>12. QED
  BY <1>7, <1>8, <1>9, <1>10, <1>11

-----------------------------------------------------------------------------
LEMMA ForeignInit == RInit => ForeignInv /\ OneInv
<1> SUFFICES ASSUME RInit PROVE ForeignInv /\ OneInv
  OBVIOUS
<1>1. /\ fo = <<>> /\ worker = IdleWorker /\ groups = NoGroups
      /\ outside = [cleanups |-> 0, lost |-> 0]
  BY DEF RInit, Init
<1>2. HeaderIds = {} /\ fo \in Seq(Journals)
  BY <1>1 DEF HeaderIds
<1>3. NoGroups \in [Groups -> GroupDocs]
  BY DEF NoGroups, Absent, GroupDocs
<1>4. CashTyped
  BY <1>1, <1>2, <1>3, DurableQueueAssumption
  DEF CashTyped, IdleWorker, IsWorker, InLoop, AtJournal, DurableQueueAssumption
<1>5. OwnKey /\ ForeignUntouched /\ NotRepeated /\ OneInv
  BY <1>1, <1>2 DEF OwnKey, ForeignUntouched, OneInv, UniqueJournal, NoneYet, OnlyKey,
     NotRepeated, Own, Live, IdleWorker, AtJournal
<1>6. QED
  BY <1>4, <1>5 DEF ForeignInv

LEMMA CashStep ==
  ASSUME CashTyped, [CashNext]_rvars
  PROVE  /\ CashTyped'
         /\ OwnKey => OwnKey'
         /\ OwnKey /\ ForeignUntouched => ForeignUntouched'
         /\ OwnKey /\ NotRepeated => NotRepeated'
         /\ Prefixes = {} => (OneInv => OneInv')
<1>1. CASE UNCHANGED rvars
  <2>1. CashTyped'
    BY <1>1, SameNumbers DEF rvars, vars, CashTyped, IsWorker
  <2>2. QED
    BY <1>1, <2>1, QuietStep DEF rvars, vars
<1>2. CASE Queue
  BY <1>2, QueueStep, QuietStep
<1>3. CASE \/ QueryRejected \/ HeaderRejected \/ StoreAttemptedIds \/ CompleteBatch
           \/ ClearAttempted \/ SetPosted \/ StoreFault
  BY <1>3, EndStep, QuietStep
<1>4. CASE Finance
  BY <1>4, FinanceStep
<1>5. CASE FindHeader \/ RelinkHeader \/ VerifyHeader
  BY <1>5, FindStep
<1>6. CASE CreateHeader \/ HeaderUnanswered
  BY <1>6, CreateStep
<1>7. CASE SetCreatedHeader \/ RecreateHeader
  BY <1>7, RecordStep
<1>8. CASE PostLines \/ PostLinesRepeated \/ PostLinesRejected
  BY <1>8, LinesStep
<1>9. QED
  BY <1>1, <1>2, <1>3, <1>4, <1>5, <1>6, <1>7, <1>8 DEF CashNext, PostHeaderAndLines

(* No line is ever written into a journal that is not of this batch, even  *)
(* when Finance gives the number of a deleted journal to another one       *)
(* (fetchVerifiedExistingHeader compares the description).                 *)
THEOREM ForeignNeverWritten == CashSpec => []ForeignUntouched
<1>1. ForeignInv /\ [CashNext]_rvars => ForeignInv'
  BY CashStep DEF ForeignInv
<1>2. ForeignInv => ForeignUntouched
  BY DEF ForeignInv
<1>3. QED
  BY <1>1, <1>2, ForeignInit, PTL DEF CashSpec

(* A batch of up to ten journals, where no marker is a prefix of another,  *)
(* as long as no answer of Finance is lost:                                *)
LEMMA OneInvHolds ==
  ASSUME Prefixes = {} PROVE CashSpec => [](CashTyped /\ OneInv)
<1>1. CashTyped /\ OneInv /\ [CashNext]_rvars => CashTyped' /\ OneInv'
  BY CashStep
<1>2. RInit => CashTyped /\ OneInv
  BY ForeignInit DEF ForeignInv
<1>3. QED
  BY <1>1, <1>2, PTL DEF CashSpec

LEMMA OwnFinite ==
  ASSUME CashTyped, NEW g PROVE IsFiniteSet(Own(g)) /\ Own(g) \in SUBSET HeaderIds
<1>1. IsFiniteSet(HeaderIds)
  BY SeqFacts, FS_Interval
<1>2. QED
  BY <1>1, FS_Subset DEF Own, Live

LEMMA AtMostOne ==
  ASSUME NEW S, IsFiniteSet(S), \A x, y \in S : x = y
  PROVE  Cardinality(S) <= 1
<1>1. CASE S = {}
  BY <1>1, FS_EmptySet
<1>2. CASE S # {}
  <2>1. PICK x \in S : TRUE
    BY <1>2
  <2>2. S = {x}
    BY <2>1
  <2>3. QED
    BY <2>2, FS_Singleton
<1>3. QED
  BY <1>1, <1>2

(* A group of the ledger route never has a second journal                  *)
(* (findHeadersByIntegrationMarker), however often the batch is retried,   *)
(* recovered after a crash or submitted again with its groups replaced;    *)
(* for batches of up to ten journals, as long as no answer of Finance is   *)
(* lost.  The other routes have no such look-up.                           *)
THEOREM NeverTwoJournals ==
  ASSUME Prefixes = {} PROVE CashSpec => []OneJournal
<1>1. CashTyped /\ OneInv => OneJournal
  <2> SUFFICES ASSUME CashTyped, OneInv, outside.lost = 0, NEW g \in LedgerGroups
               PROVE  Cardinality(Own(g)) <= 1
    BY DEF OneJournal
  <2>1. \A h, k \in Own(g) : h = k
    BY DEF OneInv, UniqueJournal
  <2>2. QED
    BY <2>1, OwnFinite, AtMostOne
<1>2. QED
  BY <1>1, OneInvHolds, PTL

-----------------------------------------------------------------------------
(* What is listed when the batch is posted.                                *)

IsBatch(b) ==
  b = [exists |-> b.exists, status |-> b.status, paused |-> b.paused, dfoIds |-> b.dfoIds]
IsRedis(r) ==
  /\ r = [state |-> r.state, attempts |-> r.attempts, stalled |-> r.stalled]
  /\ r.attempts \in Nat
IsJob(j) == j = [status |-> j.status, completed |-> j.completed]
Spendings == [submits : Nat, pauses : Nat, deletes : Nat, faults : Nat, crashes : Nat]

(* The processor is at a group, from its choice to its completion.         *)
OfGroup == InLoop \cup {"count"}
Loop == OfGroup \cup {"check"}

SideTyped ==
  /\ IsBatch(batch) /\ IsRedis(redis) /\ IsJob(job)
  /\ DOMAIN subs = Submitters
  /\ spent \in Spendings

RunTyped ==
  /\ worker.created \in Seq(Nat)
  /\ worker.pc \in OfGroup => worker.at \in Groups
  /\ worker.pc \in {"start", "list"} => worker.at = 0
  /\ worker.pc = "complete" => worker.key \in HeaderIds

ListTyped == CashTyped /\ SideTyped /\ RunTyped

(* One request in all, whatever fails: until it has stored its job nothing *)
(* runs.                                                                   *)
Preparing == {"prepare", "lookup", "storePrepare", "deleteGroups", "insertGroups",
              "upsertJob"}
Fresh == spent.submits = 0 \/ \E s \in Submitters : subs[s] \in Preparing
Untouched ==
  /\ fo = <<>> /\ job.status = "none" /\ batch.status # "Posted"
  /\ redis.state = "absent" /\ worker.pc = "idle"
  /\ ctl \notin {"requeueCheck", "requeueAdd", "markQueued"}

RequestInv ==
  spent.submits <= 1 =>
    /\ spent.submits = 0 => \A s \in Submitters : subs[s] = "idle"
    /\ \A s, t \in Submitters : subs[s] # "idle" /\ subs[t] # "idle" => s = t
    /\ \A s \in Submitters : subs[s] \in Preparing \cup {"idle", "add"}
    /\ Fresh => Untouched

(* Requests one at a time, in a process that does not crash: a request     *)
(* finds no run under way, or one that has given up.                       *)
OneAtATime == \A s, t \in Submitters : s = t
Storing == {"storePrepare", "deleteGroups", "insertGroups", "upsertJob", "add"}
Requeueing == {"requeueCheck", "requeueAdd"}
GivenUp == worker.pc = "throw" /\ redis.attempts + 1 >= MaxAttempts

QueueInv ==
  /\ boot = "done"
  /\ worker.pc # "idle" <=> redis.state = "active"
  /\ worker.pc # "idle" => redis.attempts = worker.attempt
  /\ worker.pc = "cancel" => isFinalAttempt

AskInv ==
  \A s \in Submitters :
    /\ subs[s] # "idle" =>
         /\ subs[s] # "markPosted"
         /\ worker.pc = "idle" \/ GivenUp
         /\ redis.state \in {"absent", "failed", "active"}
         /\ job.status # "paused" /\ batch.status # "Posted"
    /\ subs[s] = "remove" => redis.state = "failed"
    /\ subs[s] \in Storing => redis.state = "absent"

(* A paused job is not on the queue, but for the moment between putting it *)
(* there and marking it queued.                                            *)
PauseInv ==
  /\ job.status = "paused" =>
       /\ worker.pc \in {"idle", "start", "return", "throw"}
       /\ redis.state \in {"waiting", "delayed"} => ctl = "markQueued"
       /\ worker.pc \in {"start", "throw"} => ctl = "markQueued"
  /\ ctl \in Requeueing => job.status = "paused"
  /\ ctl = "requeueAdd" => redis.state = "absent"

(* A batch that takes a request is at rest.                                *)
StatusInv ==
  batch.exists /\ batch.status \notin {"Posting", "Posted"} =>
    /\ redis.state \in {"absent", "failed"} \/ GivenUp
    /\ job.status # "paused"
    /\ \A s \in Submitters : subs[s] \in {"idle", "prepare"}

OrderInv == QueueInv /\ AskInv /\ PauseInv /\ StatusInv

(* Which journals have lines.                                              *)
Alone ==
  /\ OneAtATime /\ Prefixes = {}
  /\ outside.lost = 0 /\ spent.crashes = 0
Calm == spent.submits <= 1 \/ Alone

Gone(g) == groups[g].status = "absent"
LinesIn(G, journals, g) ==
  {h \in 1..Len(journals) : /\ g \in G /\ journals[h].live /\ journals[h].group = g
                            /\ journals[h].lines # "none"}
HeldBy(G, g, h) == LinesIn(G, fo, g) \subseteq {h}
Ended(g) == groups[g].status \in {"completed", "absent"}
SnapDone(g) == worker.snap[g].status = "completed"

(* The groups of the loop that it has still to look at, and those that it  *)
(* has posted.                                                             *)
Ahead(g) == g > worker.at \/ (g = worker.at /\ worker.pc \in {"markGroup", "open"})
Passed(g) == g < worker.at \/ (g = worker.at /\ worker.pc \in {"check", "count", "settle"})

(* While there is one request, the journal of a group that has lines is    *)
(* the one its group records.                                              *)
HeldInv(G) ==
  /\ \A g \in Groups : ~Gone(g) => HeldBy(G, g, groups[g].header)
  /\ worker.pc \in Loop =>
       \A g \in Groups : Ahead(g) => HeldBy(G, g, worker.snap[g].header)

(* Later requests replace the groups, but not while a run is at them; and  *)
(* a group is completed with the journal it records.                       *)
GroupsInv(G) ==
  /\ groups = NoGroups \/ \A g \in Groups : ~Gone(g)
  /\ \A g \in Groups : groups[g].status = "completed" => HeldBy(G, g, groups[g].header)
  /\ worker.pc \in Loop =>
       \A g \in Groups : Ahead(g) /\ ~Gone(g) => groups[g].header = worker.snap[g].header
  /\ worker.pc \in Loop \cup {"settle"} =>
       \A g \in Groups : /\ SnapDone(g) => HeldBy(G, g, worker.snap[g].header)
                         /\ SnapDone(g) \/ Passed(g) => Ended(g)

(* The processor works with the only journal of its group that has lines.  *)
KeyInv(G) ==
  /\ worker.pc \in OfGroup => ~SnapDone(worker.at)
  /\ worker.pc \in {"create", "record"} => LinesIn(G, fo, worker.at) = {}
  /\ worker.pc \in {"relink", "verify", "lines", "complete"} => HeldBy(G, worker.at, worker.key)
  /\ worker.pc \in {"verify", "lines", "complete"} /\ ~Gone(worker.at) =>
       groups[worker.at].header = worker.key
  /\ worker.pc \in {"record", "lines", "complete"} => worker.key \in Created

(* The journals of a run are those it found completed and those it passed. *)
ListInv(G) ==
  /\ worker.pc \in Loop \cup {"settle"} =>
       \A g \in Groups : Passed(g) /\ ~SnapDone(g) => LinesIn(G, fo, g) \subseteq Created
  /\ worker.pc = "settle" => \A g \in Groups : SnapDone(g) \/ Passed(g)
  /\ worker.pc \in {"clear", "posted"} =>
       /\ batch.exists => \A g \in Groups : LinesIn(G, fo, g) \subseteq batch.dfoIds
       /\ \A g \in Groups : Ended(g)
  /\ batch.status = "Posted" =>
       /\ \A g \in Groups : LinesIn(G, fo, g) \subseteq batch.dfoIds
       /\ \A g \in Groups : Ended(g)
       /\ worker.pc \in Loop => worker.pc = "check" /\ Unposted = {}
       /\ worker.pc # "stop"

-----------------------------------------------------------------------------
(* The list of the journals of a run.                                      *)

Elements(s) == {s[i] : i \in 1..Len(s)}

LEMMA LeastElement ==
  ASSUME NEW I, I \subseteq Nat, I # {}
  PROVE  \E x \in I : \A y \in I : x <= y
<1> DEFINE Less == {ss \in Nat \X Nat : ss[1] < ss[2]}
<1>1. IsWellFoundedOn(Less, Nat)
  BY NatLessThanWellFounded, Zenon DEF OpToRel
<1> HIDE DEF Less
<1>2. PICK x \in I : \A y \in I : <<y, x>> \notin Less
  BY <1>1, WFMin, Zenon
<1>3. ASSUME NEW y \in I PROVE x <= y
  <2>1. x \in Nat /\ y \in Nat /\ <<y, x>> \notin Less
    BY <1>2
  <2>2. QED
    BY <2>1 DEF Less
<1>4. QED
  BY <1>3

LEMMA RemoveFirstSplits ==
  ASSUME NEW S, NEW s \in Seq(S), NEW e, NEW i \in 1..Len(s), s[i] = e
  PROVE  \E k \in 1..Len(s) :
           /\ s[k] = e
           /\ Seqs!RemoveFirst(s, e) = SubSeq(s, 1, k - 1) \o SubSeq(s, k + 1, Len(s))
<1> DEFINE I == {j \in 1..Len(s) : s[j] = e}
           k == CHOOSE x \in I : \A y \in I : x <= y
<1>1. Seqs!RemoveFirst(s, e) = SubSeq(s, 1, k - 1) \o SubSeq(s, k + 1, Len(s))
  BY DEF Seqs!RemoveFirst, Seqs!RemoveAt, Seqs!SelectInSeq, Seqs!Min
<1>2. I \subseteq Nat /\ I # {}
  OBVIOUS
<1>3. \E x \in I : \A y \in I : x <= y
  BY <1>2, LeastElement
<1>4. k \in I
  BY <1>3
<1>5. QED
  BY <1>1, <1>4

(* findIndex and splice take away no other element.                        *)
LEMMA RemoveFirstElements ==
  ASSUME NEW S, NEW s \in Seq(S), NEW e, e \in Elements(s)
  PROVE  /\ Seqs!RemoveFirst(s, e) \in Seq(S)
         /\ Elements(Seqs!RemoveFirst(s, e)) \subseteq Elements(s)
         /\ Elements(s) \ {e} \subseteq Elements(Seqs!RemoveFirst(s, e))
<1>1. PICK i \in 1..Len(s) : s[i] = e
  BY DEF Elements
<1>2. PICK k \in 1..Len(s) :
        /\ s[k] = e
        /\ Seqs!RemoveFirst(s, e) = SubSeq(s, 1, k - 1) \o SubSeq(s, k + 1, Len(s))
  BY <1>1, RemoveFirstSplits
<1> DEFINE p == SubSeq(s, 1, k - 1)
           q == SubSeq(s, k + 1, Len(s))
           r == p \o q
<1>3. p \in Seq(S) /\ Len(p) = k - 1 /\ \A j \in 1..(k - 1) : p[j] = s[j]
  OBVIOUS
<1>4. q \in Seq(S) /\ Len(q) = Len(s) - k /\ \A j \in 1..(Len(s) - k) : q[j] = s[k + j]
  OBVIOUS
<1> HIDE DEF p, q
<1>5. r \in Seq(S) /\ Len(r) = Len(s) - 1
  <2>1. r \in Seq(S) /\ Len(r) = Len(p) + Len(q)
    BY <1>3, <1>4, ConcatProperties, Zenon
  <2>2. QED
    BY <1>3, <1>4, <2>1
<1>6. \A j \in 1..Len(r) : r[j] = IF j <= k - 1 THEN p[j] ELSE q[j - (k - 1)]
  BY <1>3, <1>4, <1>5, ConcatProperties
<1> HIDE DEF r
<1>7. \A j \in 1..(k - 1) : r[j] = s[j]
  <2> TAKE j \in 1..(k - 1)
  <2>1. j \in 1..Len(r) /\ j <= k - 1
    BY <1>5
  <2>2. r[j] = p[j]
    BY <1>6, <2>1
  <2>3. QED
    BY <1>3, <2>2
<1>8. \A j \in k..(Len(s) - 1) : r[j] = s[j + 1]
  <2> TAKE j \in k..(Len(s) - 1)
  <2>1. r[j] = q[j - (k - 1)]
    BY <1>5, <1>6
  <2>2. QED
    BY <1>4, <2>1
<1>9. ASSUME NEW x \in Elements(r) PROVE x \in Elements(s)
  <2>1. PICK j \in 1..Len(r) : x = r[j]
    BY DEF Elements
  <2>2. x = s[j] \/ (x = s[j + 1] /\ j + 1 \in 1..Len(s))
    BY <1>5, <1>7, <1>8, <2>1
  <2>3. j \in 1..Len(s)
    BY <1>5
  <2>4. QED
    BY <2>2, <2>3 DEF Elements
<1>10. ASSUME NEW x \in Elements(s), x # e PROVE x \in Elements(r)
  <2>1. PICK j \in 1..Len(s) : x = s[j]
    BY DEF Elements
  <2>2. CASE j < k
    BY <1>5, <1>7, <2>1, <2>2 DEF Elements
  <2>3. CASE j > k
    <3>1. j - 1 \in k..(Len(s) - 1) /\ r[j - 1] = s[j]
      BY <1>8, <2>3
    <3>2. j - 1 \in 1..Len(r)
      BY <1>5, <3>1
    <3>3. QED
      BY <2>1, <3>1, <3>2 DEF Elements
  <2>4. QED
    BY <1>2, <1>10, <2>1, <2>2, <2>3
<1>11. r = Seqs!RemoveFirst(s, e)
  BY <1>2 DEF r, p, q
<1>12. QED
  BY <1>5, <1>9, <1>10, <1>11

LEMMA AppendElements ==
  ASSUME NEW s \in Seq(Nat), NEW x \in Nat
  PROVE  Append(s, x) \in Seq(Nat) /\ Elements(Append(s, x)) = Elements(s) \cup {x}
<1>1. /\ Append(s, x) \in Seq(Nat) /\ Len(Append(s, x)) = Len(s) + 1 /\ Len(s) \in Nat
      /\ \A i \in 1..Len(s) : Append(s, x)[i] = s[i]
      /\ Append(s, x)[Len(s) + 1] = x
  OBVIOUS
<1>2. 1..(Len(s) + 1) = (1..Len(s)) \cup {Len(s) + 1}
  BY <1>1
<1>3. QED
  BY <1>1, <1>2 DEF Elements

(* ... and a number that is not there takes nothing away.                  *)
LEMMA RemoveFirstAbsent ==
  ASSUME NEW S, NEW s \in Seq(S), NEW e, e \notin Elements(s)
  PROVE  Seqs!RemoveFirst(s, e) = s
BY DEF Seqs!RemoveFirst, Elements

-----------------------------------------------------------------------------
(* The kinds of steps: what others do, the ends of runs, the steps of the  *)
(* processor that leave its loop, those that walk on in it, those that     *)
(* read, those that look for or open a journal, and those that write       *)
(* lines.                                                                  *)
Quiet == UNCHANGED <<fo, outside>>
Aside == /\ \/ \E s \in Submitters : Submit(s)
            \/ Control \/ PromoteDelayed \/ Stalled \/ Boot
         /\ Quiet /\ UNCHANGED worker
Ends == (PickUp \/ Crash \/ Return \/ Throw) /\ Quiet
Leaves == /\ \/ QueryRejected \/ HeaderRejected \/ StoreFault
             \/ MarkActive \/ RecordWorkerStopped \/ MarkCompleted \/ FailJob
             \/ CancelBatch \/ StoreAttemptedIds \/ CompleteBatch \/ ClearAttempted
             \/ SetPosted
          /\ Quiet
Walks == (MarkGroupActive \/ CompleteGroup \/ CountGroup) /\ Quiet
Reads == (ListGroups \/ CheckPause) /\ Quiet
Opens == FindHeader \/ RelinkHeader \/ VerifyHeader \/ CreateHeader
           \/ HeaderUnanswered \/ SetCreatedHeader \/ RecreateHeader
Writes == PostLines \/ PostLinesRepeated \/ PostLinesRejected

LEMMA Kinds ==
  ASSUME CashTyped, CashNext
  PROVE  Aside \/ Ends \/ Leaves \/ Walks \/ Reads \/ Opens \/ Writes \/ Finance
<1>1. ASSUME Queue PROVE UNCHANGED <<fo, outside>>
  BY <1>1, QueueStep
<1>2. ASSUME \/ \E s \in Submitters : Submit(s)
             \/ Control \/ PromoteDelayed \/ Stalled \/ Boot
      PROVE  UNCHANGED worker
  BY <1>2 DEF Submit, SubmitValidate, SubmitPrepare, SubmitLookup,
       SubmitMarkPosted, SubmitRemoveFailed, SubmitStorePrepare,
       ReplaceDeleteGroups, ReplaceInsertGroups, ReplaceUpsertJob,
       SubmitAdd, Control, PauseRead, PauseSet, ResumeRead, ResumeClear,
       ResumeFindJob, RequeueCheck, RequeueAdd, MarkQueued, DeleteRead,
       DeletePause, DeleteRedisJob, DeletePurge, DeleteBatch, Boot,
       ReleaseRead, ForceRemove, Restore, PromoteDelayed, Stalled
<1>3. CASE Queue
  BY <1>1, <1>2, <1>3 DEF Queue, Processor, Aside, Ends, Leaves, Walks, Reads, Quiet
<1>4. CASE \/ QueryRejected \/ HeaderRejected \/ StoreFault \/ StoreAttemptedIds
           \/ CompleteBatch \/ ClearAttempted \/ SetPosted
  BY <1>4 DEF QueryRejected, HeaderRejected, StoreFault, StoreAttemptedIds,
     CompleteBatch, ClearAttempted, SetPosted, Leaves, Quiet
<1>5. QED
  BY <1>3, <1>4 DEF CashNext, PostHeaderAndLines, Opens, Writes

LEMMA AsideGroups ==
  ASSUME Aside
  PROVE  \/ UNCHANGED groups \/ groups' = NoGroups
         \/ groups' = [g \in Groups |-> Pending]
BY DEF Aside, Submit, SubmitValidate, SubmitPrepare, SubmitLookup,
     SubmitMarkPosted, SubmitRemoveFailed, SubmitStorePrepare,
     ReplaceDeleteGroups, ReplaceInsertGroups, ReplaceUpsertJob, SubmitAdd,
     Control, PauseRead, PauseSet, ResumeRead, ResumeClear, ResumeFindJob,
     RequeueCheck, RequeueAdd, MarkQueued, DeleteRead, DeletePause,
     DeleteRedisJob, DeletePurge, DeleteBatch, Boot, ReleaseRead,
     ForceRemove, Restore, PromoteDelayed, Stalled

LEMMA EndsIdle ==
  ASSUME Ends
  PROVE  /\ UNCHANGED <<groups, batch>> /\ IsWorker(worker)'
         /\ worker'.snap = NoGroups /\ worker'.at = 0 /\ worker'.key = NoHeader
         /\ worker'.created = <<>> /\ worker'.pc \in {"idle", "start"}
<1>1. UNCHANGED <<groups, batch>>
  BY DEF Ends, PickUp, Crash, Return, Throw
<1>2. \/ worker' = IdleWorker
      \/ worker' = [IdleWorker EXCEPT !.pc = "start", !.attempt = redis.attempts]
  BY DEF Ends, PickUp, Crash, Return, Throw
<1>3. CASE worker' = IdleWorker
  BY <1>1, <1>3 DEF IdleWorker, IsWorker
<1>4. CASE worker' = [IdleWorker EXCEPT !.pc = "start", !.attempt = redis.attempts]
  BY <1>1, <1>4 DEF IdleWorker, IsWorker
<1>5. QED
  BY <1>2, <1>3, <1>4

OutOfLoop == {"list", "caught", "fail", "throw", "return", "cancel", "clear", "posted",
              "finish"}

LEMMA LeavesLoop ==
  ASSUME Leaves
  PROVE  UNCHANGED groups /\ \E p \in OutOfLoop : Goto(p) /\ (p = "list" => worker.pc = "start")
BY DEF Leaves, QueryRejected, HeaderRejected, StoreFault, MarkActive, ClearAttempted,
     RecordWorkerStopped, MarkCompleted, FailJob, CancelBatch, StoreAttemptedIds, CompleteBatch,
     SetPosted, OutOfLoop

(* A step that only moves the program counter.                             *)
LEMMA GotoKeeps ==
  ASSUME CashTyped, NEW p, Goto(p)
  PROVE  /\ IsWorker(worker)' /\ worker'.pc = p /\ worker'.at = worker.at
         /\ worker'.key = worker.key /\ worker'.snap = worker.snap
         /\ worker'.created = worker.created /\ worker'.attempt = worker.attempt
BY DEF CashTyped, IsWorker, Goto

LEMMA WalksOn ==
  ASSUME ListTyped, Walks
  PROVE  /\ worker.pc \in Loop /\ worker.at \in Groups /\ UNCHANGED batch
         /\ \/ worker.pc = "markGroup" /\ Goto("open")
               /\ SetGroup(worker.at, [groups[worker.at] EXCEPT !.status = "active"])
            \/ /\ worker.pc = "complete" /\ (Goto("count") \/ Goto("check"))
               /\ SetGroup(worker.at, [groups[worker.at] EXCEPT !.status = "completed"])
            \/ worker.pc = "count" /\ Goto("check") /\ UNCHANGED groups
BY DEF ListTyped, RunTyped, Walks, MarkGroupActive, CompleteGroup, CountGroup, Loop, OfGroup,
     InLoop, AtJournal

LEMMA GroupSet ==
  ASSUME CashTyped, NEW g \in Groups, NEW r \in GroupDocs, SetGroup(g, r)
  PROVE  /\ groups' \in [Groups -> GroupDocs]
         /\ \A k \in Groups \ {g} : groups'[k] = groups[k]
         /\ groups[g].status = "absent" => groups'[g] = groups[g]
         /\ groups[g].status # "absent" => groups'[g] = r
BY DEF CashTyped, SetGroup

(* The processor changes the status or the number of its group.            *)
LEMMA StatusSet ==
  ASSUME CashTyped, worker.at \in Groups, NEW x \in {"active", "completed"},
         SetGroup(worker.at, [groups[worker.at] EXCEPT !.status = x])
  PROVE  /\ groups' \in [Groups -> GroupDocs]
         /\ \A g \in Groups \ {worker.at} : groups'[g] = groups[g]
         /\ \A g \in Groups : /\ groups'[g].header = groups[g].header
                              /\ groups'[g].status = "absent" <=> groups[g].status = "absent"
         /\ groups'[worker.at].status \in {x, "absent"}
<1> DEFINE r == [groups[worker.at] EXCEPT !.status = x]
<1>1. groups[worker.at] \in GroupDocs
  BY DEF CashTyped
<1>2. r \in GroupDocs /\ r.status = x /\ r.header = groups[worker.at].header
  BY <1>1 DEF GroupDocs
<1>3. SetGroup(worker.at, r)
  OBVIOUS
<1> HIDE DEF r
<1>4. QED
  BY <1>2, <1>3, GroupSet

LEMMA HeaderSet ==
  ASSUME CashTyped, worker.at \in Groups, worker.key \in HeaderIds,
         SetGroup(worker.at, [groups[worker.at] EXCEPT !.header = worker.key])
  PROVE  /\ groups' \in [Groups -> GroupDocs]
         /\ \A g \in Groups \ {worker.at} : groups'[g] = groups[g]
         /\ \A g \in Groups : groups'[g].status = groups[g].status
         /\ groups'[worker.at].header \in {groups[worker.at].header, worker.key}
         /\ groups[worker.at].status # "absent" => groups'[worker.at].header = worker.key
<1> DEFINE r == [groups[worker.at] EXCEPT !.header = worker.key]
<1>1. groups[worker.at] \in GroupDocs
  BY DEF CashTyped
<1>2. r \in GroupDocs /\ r.header = worker.key /\ r.status = groups[worker.at].status
  BY <1>1 DEF GroupDocs
<1>3. SetGroup(worker.at, r)
  OBVIOUS
<1> HIDE DEF r
<1>4. QED
  BY <1>2, <1>3, GroupSet

(* Finance deletes a journal, or gives its number away.                    *)
LEMMA FinanceFrame ==
  ASSUME CashTyped, Finance
  PROVE  /\ UNCHANGED <<groups, worker, batch, job, redis, subs, ctl, boot, spent>>
         /\ HeaderIds' = HeaderIds
         /\ \E h \in HeaderIds : /\ ~fo'[h].live \/ fo'[h].lines = "none"
                                 /\ \A k \in HeaderIds \ {h} : fo'[k] = fo[k]
<1>1. PICK h \in HeaderIds : FinanceDelete(h) \/ FinanceReuse(h)
  BY DEF Finance
<1>2. fo[h] \in Journals /\ fo \in Seq(Journals) /\ h \in 1..Len(fo)
  BY SeqFacts DEF CashTyped
<1>3. UNCHANGED <<groups, worker, batch, job, redis, subs, ctl, boot, spent>>
  BY <1>1 DEF FinanceDelete, FinanceReuse
<1>4. /\ Len(fo') = Len(fo)
      /\ ~fo'[h].live \/ fo'[h].lines = "none"
      /\ \A k \in HeaderIds \ {h} : fo'[k] = fo[k]
  <2>1. CASE FinanceDelete(h)
    <3>1. PICK x \in 0..N : fo' = [fo EXCEPT ![h].live = FALSE, ![h].gone = x]
      BY <1>2, <2>1 DEF FinanceDelete, Journals
    <3>2. QED
      BY <1>2, <3>1 DEF HeaderIds, Journals
  <2>2. CASE FinanceReuse(h)
    <3>1. fo' = [fo EXCEPT ![h].live = TRUE, ![h].group = 0, ![h].lines = "none"]
      BY <2>2 DEF FinanceReuse
    <3>2. QED
      BY <1>2, <3>1 DEF HeaderIds, Journals
  <2>3. QED
    BY <1>1, <2>1, <2>2
<1>5. HeaderIds' = HeaderIds
  BY <1>4 DEF HeaderIds
<1>6. QED
  BY <1>3, <1>4, <1>5

(* Reading the groups and the pause flag.                                  *)
LEMMA ReadsTo ==
  ASSUME CashTyped, Reads
  PROVE  /\ UNCHANGED <<groups, batch>> /\ IsWorker(worker)'
         /\ worker'.key = worker.key /\ worker'.created = worker.created
         /\ worker'.attempt = worker.attempt
         /\ \/ /\ worker.pc = "list" /\ worker'.snap = groups /\ worker'.at = worker.at
               /\ worker'.pc \in {"fail", "check"}
               /\ worker'.pc = "check" => groups # NoGroups
            \/ /\ worker.pc = "check" /\ worker'.snap = worker.snap
               /\ \/ worker'.at = worker.at /\ worker'.pc = "settle" /\ Unposted = {}
                  \/ worker'.at = worker.at /\ worker'.pc = "stop" /\ Unposted # {}
                  \/ /\ worker'.at \in Unposted /\ \A k \in Unposted : worker'.at <= k
                     /\ worker'.pc = "markGroup" /\ batch.exists
<1>1. IsWorker(worker) /\ UNCHANGED <<groups, batch>>
  BY DEF CashTyped, Reads, ListGroups, CheckPause
<1>2. CASE ListGroups
  <2>1. /\ worker.pc = "list"
        /\ worker' = [worker EXCEPT !.snap = groups,
                  !.pc = IF groups = NoGroups THEN "fail" ELSE "check"]
    BY <1>2 DEF ListGroups
  <2>2. QED
    BY <1>1, <2>1 DEF IsWorker
<1>3. CASE CheckPause
  <2>1. CASE Unposted = {} /\ Goto("settle")
    BY <1>1, <1>3, <2>1, GotoKeeps DEF CheckPause
  <2>2. CASE Unposted # {} /\ Goto("stop")
    BY <1>1, <1>3, <2>2, GotoKeeps DEF CheckPause
  <2>3. CASE batch.exists /\ \E g \in Unposted :
          /\ \A k \in Unposted : g <= k
          /\ worker' = [worker EXCEPT !.pc = "markGroup", !.at = g]
    <3>1. PICK g \in Unposted :
            /\ \A k \in Unposted : g <= k
            /\ worker' = [worker EXCEPT !.pc = "markGroup", !.at = g]
      BY <2>3
    <3>2. /\ IsWorker(worker)' /\ worker'.snap = worker.snap /\ worker'.at = g
          /\ worker'.pc = "markGroup" /\ worker'.key = worker.key
          /\ worker'.created = worker.created /\ worker'.attempt = worker.attempt
      BY <1>1, <3>1 DEF IsWorker
    <3>3. worker.pc = "check"
      BY <1>3 DEF CheckPause
    <3>4. QED
      BY <1>1, <2>3, <3>1, <3>2, <3>3, Zenon
  <2>4. QED
    BY <1>3, <2>1, <2>2, <2>3 DEF CheckPause
<1>4. QED
  BY <1>2, <1>3 DEF Reads

(* Looking for the journal of the group at hand, and making it.            *)
LEMMA FindsKey ==
  ASSUME CashTyped, FindHeader
  PROVE  /\ worker.pc = "open" /\ worker.at \in Groups
         /\ UNCHANGED <<fo, groups, batch, outside>>
         /\ IsWorker(worker)' /\ worker'.at = worker.at /\ worker'.snap = worker.snap
         /\ worker'.attempt = worker.attempt
         /\ worker'.created = worker.created
         /\ \/ /\ Cardinality(MarkerHeaders(worker.at)) = 1
               /\ worker'.key \in MarkerHeaders(worker.at)
               /\ \/ worker'.pc = "verify" /\ worker'.key = worker.snap[worker.at].header
                  \/ worker'.pc = "relink"
            \/ /\ Cardinality(MarkerHeaders(worker.at)) # 1
               /\ worker'.key = worker.snap[worker.at].header
               /\ \/ worker'.pc = "create" /\ worker'.key = NoHeader
                  \/ worker'.pc = "verify"
<1> DEFINE marked == MarkerHeaders(worker.at)
           recorded == worker.snap[worker.at].header
<1>1. /\ worker.pc = "open" /\ worker.at \in Groups /\ IsWorker(worker)
      /\ UNCHANGED <<fo, groups, batch, outside>>
  BY DEF FindHeader, CashTyped, InLoop
<1>2. CASE Cardinality(marked) = 1
  <2>1. PICK h \in marked :
          worker' = [worker EXCEPT !.key = h, !.undo = 0,
                              !.pc = IF h = recorded THEN "verify" ELSE "relink"]
    BY <1>2 DEF FindHeader
  <2> HIDE DEF marked, recorded
  <2>2. /\ IsWorker(worker)' /\ worker'.at = worker.at /\ worker'.snap = worker.snap
        /\ worker'.attempt = worker.attempt
        /\ worker'.created = worker.created /\ worker'.key = h
        /\ worker'.pc = IF h = recorded THEN "verify" ELSE "relink"
    BY <1>1, <2>1 DEF IsWorker
  <2>3. QED
    BY <1>1, <1>2, <2>1, <2>2 DEF marked, recorded
<1>3. CASE Cardinality(marked) # 1
  <2>1. worker' = [worker EXCEPT !.key = recorded, !.undo = 0,
                            !.pc = IF recorded = NoHeader THEN "create" ELSE "verify"]
    BY <1>3 DEF FindHeader
  <2> HIDE DEF marked, recorded
  <2>2. /\ IsWorker(worker)' /\ worker'.at = worker.at /\ worker'.snap = worker.snap
        /\ worker'.attempt = worker.attempt
        /\ worker'.created = worker.created /\ worker'.key = recorded
        /\ worker'.pc = IF recorded = NoHeader THEN "create" ELSE "verify"
    BY <1>1, <2>1 DEF IsWorker
  <2>3. QED
    BY <1>1, <1>3, <2>2 DEF marked, recorded
<1>4. QED
  BY <1>2, <1>3

LEMMA VerifiesKey ==
  ASSUME CashTyped, VerifyHeader
  PROVE  /\ worker.pc = "verify" /\ worker.at \in Groups /\ worker.key \in HeaderIds
         /\ UNCHANGED <<fo, groups, batch, outside>>
         /\ IsWorker(worker)' /\ worker'.at = worker.at /\ worker'.snap = worker.snap
         /\ worker'.attempt = worker.attempt
         /\ worker'.key = worker.key
         /\ \/ /\ ~fo[worker.key].live \/ fo[worker.key].group # worker.at
               /\ worker'.pc = "create" /\ worker'.created = worker.created
            \/ /\ fo[worker.key].live /\ fo[worker.key].group = worker.at
               /\ worker'.pc \in {"complete", "lines"}
               /\ worker'.created = Append(worker.created, worker.key)
<1>1. /\ worker.pc = "verify" /\ worker.at \in Groups /\ IsWorker(worker)
      /\ worker.key \in HeaderIds /\ UNCHANGED <<fo, groups, batch, outside>>
  BY DEF VerifyHeader, CashTyped, InLoop, AtJournal
<1>2. CASE (~fo[worker.key].live \/ fo[worker.key].group # worker.at) /\ Goto("create")
  BY <1>1, <1>2, GotoKeeps
<1>3. CASE /\ fo[worker.key].live /\ fo[worker.key].group = worker.at
           /\ worker' = [worker EXCEPT !.created = Append(worker.created, worker.key),
                           !.pc = IF fo[worker.key].lines \in Enough
                                  THEN "complete" ELSE "lines"]
  BY <1>1, <1>3 DEF IsWorker
<1>4. QED
  BY <1>2, <1>3 DEF VerifyHeader

(* A new journal gets the next number.                                     *)
LEMMA NewNumber ==
  ASSUME CashTyped, worker.at \in Groups, fo' = Append(fo, NewJournal(worker.at))
  PROVE  /\ fo' \in Seq(Journals) /\ Len(fo') = Len(fo) + 1
         /\ HeaderIds' = HeaderIds \cup {Len(fo) + 1} /\ Len(fo) + 1 \notin HeaderIds
         /\ fo'[Len(fo) + 1] = NewJournal(worker.at)
         /\ \A h \in HeaderIds : fo'[h] = fo[h]
<1>1. NewJournal(worker.at) \in Journals
  BY SeqFacts DEF NewJournal, Journals, LineStates, OnceLines
<1>2. fo \in Seq(Journals)
  BY DEF CashTyped
<1>3. QED
  BY <1>1, <1>2 DEF HeaderIds

LEMMA CreatesKey ==
  ASSUME CashTyped, CreateHeader
  PROVE  /\ worker.pc = "create" /\ worker.at \in Groups
         /\ fo' = Append(fo, NewJournal(worker.at))
         /\ UNCHANGED <<groups, batch, outside>>
         /\ IsWorker(worker)' /\ worker'.at = worker.at /\ worker'.snap = worker.snap
         /\ worker'.attempt = worker.attempt
         /\ worker'.key = Len(fo) + 1 /\ worker'.pc = "record"
         /\ worker'.created = Append(worker.created, Len(fo) + 1)
BY DEF CreateHeader, CashTyped, InLoop, AtJournal, IsWorker

LEMMA RecreatesKey ==
  ASSUME CashTyped, RecreateHeader
  PROVE  /\ worker.pc = "lines" /\ worker.at \in Groups /\ worker.key \in HeaderIds
         /\ ~fo[worker.key].live
         /\ UNCHANGED <<fo, groups, batch, outside>>
         /\ IsWorker(worker)' /\ worker'.at = worker.at /\ worker'.snap = worker.snap
         /\ worker'.attempt = worker.attempt
         /\ worker'.key = worker.key
         /\ \/ worker'.pc = "caught" /\ worker'.created = worker.created
            \/ /\ worker'.pc = "create"
               /\ worker'.created = Seqs!RemoveFirst(worker.created, worker.key)
<1>1. /\ worker.pc = "lines" /\ worker.at \in Groups /\ IsWorker(worker)
      /\ worker.key \in HeaderIds /\ ~fo[worker.key].live
      /\ UNCHANGED <<fo, groups, batch, outside>>
  BY DEF RecreateHeader, CashTyped, InLoop, AtJournal
<1>2. CASE Goto("caught")
  BY <1>1, <1>2, GotoKeeps
<1>3. CASE worker' = [worker EXCEPT !.pc = "create", !.undo = worker.undo + 1,
                        !.created = Seqs!RemoveFirst(worker.created, worker.key)]
  BY <1>1, <1>3 DEF IsWorker
<1>4. QED
  BY <1>2, <1>3 DEF RecreateHeader

(* The journal at hand is recorded, or its creation is not answered.       *)
LEMMA RecordsKey ==
  ASSUME CashTyped, RelinkHeader \/ SetCreatedHeader
  PROVE  /\ worker.at \in Groups /\ worker.key \in HeaderIds
         /\ UNCHANGED <<fo, batch, outside>>
         /\ SetGroup(worker.at, [groups[worker.at] EXCEPT !.header = worker.key])
         /\ \/ worker.pc = "relink" /\ Goto("verify")
            \/ worker.pc = "record" /\ Goto("lines")
BY DEF RelinkHeader, SetCreatedHeader, CashTyped, InLoop, AtJournal

LEMMA UnansweredKey ==
  ASSUME CashTyped, HeaderUnanswered
  PROVE  /\ worker.pc = "create" /\ worker.at \in Groups
         /\ fo' = Append(fo, NewJournal(worker.at))
         /\ UNCHANGED <<groups, batch>> /\ outside'.lost # 0
         /\ UNCHANGED worker \/ Goto("caught")
<1>1. outside'.lost # 0
  BY DEF HeaderUnanswered, Suffer, CashTyped
<1>2. QED
  BY <1>1 DEF HeaderUnanswered, CashTyped, InLoop, AtJournal

LEMMA OpensTo ==
  ASSUME CashTyped, Opens
  PROVE  /\ worker.pc \in {"open"} \cup AtJournal /\ worker.at \in Groups
         /\ IsWorker(worker)' /\ worker'.at = worker.at /\ worker'.snap = worker.snap
         /\ worker'.attempt = worker.attempt
         /\ UNCHANGED batch
         /\ worker'.pc \in AtJournal \cup {"complete", "caught"}
         /\ worker'.pc = "complete" => worker.pc = "verify" /\ worker'.key = worker.key
         /\ UNCHANGED fo \/ fo' = Append(fo, NewJournal(worker.at))
<1>1. CASE FindHeader
  BY <1>1, FindsKey DEF AtJournal
<1>2. CASE VerifyHeader
  BY <1>2, VerifiesKey DEF AtJournal
<1>3. CASE CreateHeader
  BY <1>3, CreatesKey DEF AtJournal
<1>4. CASE RecreateHeader
  BY <1>4, RecreatesKey DEF AtJournal
<1>5. CASE RelinkHeader \/ SetCreatedHeader
  BY <1>5, RecordsKey, GotoKeeps DEF AtJournal
<1>6. CASE HeaderUnanswered
  <2>1. CASE UNCHANGED worker
    BY <1>6, <2>1, UnansweredKey DEF AtJournal, CashTyped
  <2>2. CASE Goto("caught")
    BY <1>6, <2>2, UnansweredKey, GotoKeeps DEF AtJournal
  <2>3. QED
    BY <1>6, <2>1, <2>2, UnansweredKey
<1>7. QED
  BY <1>1, <1>2, <1>3, <1>4, <1>5, <1>6 DEF Opens

(* Writing the lines of the journal at hand.                               *)
LEMMA WritesLines ==
  ASSUME CashTyped, Writes
  PROVE  /\ worker.pc = "lines" /\ worker.key \in HeaderIds /\ worker.at \in Groups
         /\ UNCHANGED <<batch, job, groups, redis, subs, ctl, boot, spent>>
         /\ Goto("complete") \/ Goto("caught")
         /\ HeaderIds' = HeaderIds
         /\ \A h \in HeaderIds \ {worker.key} : fo'[h] = fo[h]
         /\ fo'[worker.key].group = fo[worker.key].group
         /\ fo'[worker.key].live = fo[worker.key].live
<1>1. /\ worker.pc = "lines"
      /\ UNCHANGED <<batch, job, groups, redis, subs, ctl, boot, spent>>
  BY DEF Writes, PostLines, PostLinesRepeated, PostLinesRejected, AtLines, WriteLines
<1>2. worker.key \in HeaderIds /\ worker.at \in Groups /\ fo[worker.key] \in Journals
  BY <1>1, SeqFacts DEF CashTyped, InLoop, AtJournal
<1>3. \E after : /\ fo' = [fo EXCEPT ![worker.key].lines = after]
                 /\ Goto("complete") \/ Goto("caught")
  BY DEF Writes, PostLines, PostLinesRepeated, PostLinesRejected, WriteLines
<1>4. fo \in Seq(Journals) /\ worker.key \in 1..Len(fo)
  BY <1>2 DEF CashTyped, HeaderIds
<1>5. QED
  BY <1>1, <1>2, <1>3, <1>4 DEF HeaderIds, Journals

LEMMA NumbersGrow ==
  ASSUME CashTyped, CashNext
  PROVE  HeaderIds \subseteq HeaderIds'
<1>1. CASE Aside \/ Ends \/ Leaves \/ Walks \/ Reads
  BY <1>1 DEF Aside, Ends, Leaves, Walks, Reads, Quiet, HeaderIds
<1>2. CASE Opens
  BY <1>2, OpensTo, NewNumber DEF HeaderIds
<1>3. QED
  BY <1>1, <1>2, FinanceFrame, WritesLines, Kinds

-----------------------------------------------------------------------------
(* Types.                                                                  *)

LEMMA SpentStep ==
  ASSUME CashNext
  PROVE  \/ UNCHANGED spent
         \/ \E what \in {"submits", "pauses", "deletes", "faults", "crashes"} :
              spent' = [spent EXCEPT ![what] = @ + 1]
BY DEF CashNext, Queue, Submit, SubmitValidate, SubmitPrepare, SubmitLookup,
     SubmitMarkPosted, SubmitRemoveFailed, SubmitStorePrepare,
     ReplaceDeleteGroups, ReplaceInsertGroups, ReplaceUpsertJob, SubmitAdd,
     Control, PauseRead, PauseSet, ResumeRead, ResumeClear, ResumeFindJob,
     RequeueCheck, RequeueAdd, MarkQueued, DeleteRead, DeletePause,
     DeleteRedisJob, DeletePurge, DeleteBatch, Boot, ReleaseRead,
     ForceRemove, Restore, Processor, MarkActive, ListGroups, CheckPause,
     RecordWorkerStopped, MarkGroupActive, CompleteGroup, CountGroup,
     MarkCompleted, FailJob, CancelBatch, Return, Throw, PickUp,
     PromoteDelayed, Stalled, Crash, FindHeader, QueryRejected, RelinkHeader,
     VerifyHeader, CreateHeader, SetCreatedHeader, RecreateHeader,
     PostHeaderAndLines, HeaderRejected, HeaderUnanswered, PostLines,
     PostLinesRepeated, PostLinesRejected, WriteLines, StoreAttemptedIds,
     CompleteBatch, ClearAttempted, SetPosted, StoreFault, Finance,
     FinanceDelete, FinanceReuse, Spend

LEMMA LostStep ==
  ASSUME CashNext
  PROVE  \/ UNCHANGED outside
         \/ \E what \in {"cleanups", "lost"} : outside' = [outside EXCEPT ![what] = @ + 1]
<1>1. CASE Queue
  BY <1>1 DEF Queue
<1>2. CASE ~Queue
  BY <1>2 DEF CashNext, FindHeader, QueryRejected, RelinkHeader,
       VerifyHeader, CreateHeader, SetCreatedHeader, RecreateHeader,
       PostHeaderAndLines, HeaderRejected, HeaderUnanswered, PostLines,
       PostLinesRepeated, PostLinesRejected, WriteLines, StoreAttemptedIds,
       CompleteBatch, ClearAttempted, SetPosted, StoreFault, Finance,
       FinanceDelete, FinanceReuse, Suffer
<1>3. QED
  BY <1>1, <1>2

LEMMA SideStep ==
  ASSUME SideTyped, CashNext
  PROVE  SideTyped'
<1>1. \/ UNCHANGED batch \/ batch' = [batch EXCEPT !.exists = FALSE]
      \/ \E x : \/ batch' = [batch EXCEPT !.status = x] \/ batch' = [batch EXCEPT !.paused = x]
                \/ batch' = [batch EXCEPT !.dfoIds = x]
  BY DEF CashNext, Queue, Submit, SubmitValidate, SubmitPrepare,
       SubmitLookup, SubmitMarkPosted, SubmitRemoveFailed,
       SubmitStorePrepare, ReplaceDeleteGroups, ReplaceInsertGroups,
       ReplaceUpsertJob, SubmitAdd, Control, PauseRead, PauseSet,
       ResumeRead, ResumeClear, ResumeFindJob, RequeueCheck, RequeueAdd,
       MarkQueued, DeleteRead, DeletePause, DeleteRedisJob, DeletePurge,
       DeleteBatch, Boot, ReleaseRead, ForceRemove, Restore, Processor,
       MarkActive, ListGroups, CheckPause, RecordWorkerStopped,
       MarkGroupActive, CompleteGroup, CountGroup, MarkCompleted, FailJob,
       CancelBatch, Return, Throw, PickUp, PromoteDelayed, Stalled, Crash,
       FindHeader, QueryRejected, RelinkHeader, VerifyHeader, CreateHeader,
       SetCreatedHeader, RecreateHeader, PostHeaderAndLines,
       HeaderRejected, HeaderUnanswered, PostLines, PostLinesRepeated,
       PostLinesRejected, WriteLines, StoreAttemptedIds, CompleteBatch,
       ClearAttempted, SetPosted, StoreFault, Finance, FinanceDelete,
       FinanceReuse, SetBatchStatus, SetBatchPaused, SetDfoIds
<1>2. \/ UNCHANGED redis \/ redis' = NoRedisJob \/ redis' = NewRedisJob
      \/ \E x, y : \/ redis' = [redis EXCEPT !.state = x]
                   \/ redis' = [redis EXCEPT !.state = x, !.stalled = y]
                   \/ redis' = [redis EXCEPT !.attempts = redis.attempts + 1, !.state = x]
  BY DEF CashNext, Queue, Submit, SubmitValidate, SubmitPrepare,
       SubmitLookup, SubmitMarkPosted, SubmitRemoveFailed,
       SubmitStorePrepare, ReplaceDeleteGroups, ReplaceInsertGroups,
       ReplaceUpsertJob, SubmitAdd, Control, PauseRead, PauseSet,
       ResumeRead, ResumeClear, ResumeFindJob, RequeueCheck, RequeueAdd,
       MarkQueued, DeleteRead, DeletePause, DeleteRedisJob, DeletePurge,
       DeleteBatch, Boot, ReleaseRead, ForceRemove, Restore, Processor,
       MarkActive, ListGroups, CheckPause, RecordWorkerStopped,
       MarkGroupActive, CompleteGroup, CountGroup, MarkCompleted, FailJob,
       CancelBatch, Return, Throw, PickUp, PromoteDelayed, Stalled, Crash,
       FindHeader, QueryRejected, RelinkHeader, VerifyHeader, CreateHeader,
       SetCreatedHeader, RecreateHeader, PostHeaderAndLines,
       HeaderRejected, HeaderUnanswered, PostLines, PostLinesRepeated,
       PostLinesRejected, WriteLines, StoreAttemptedIds, CompleteBatch,
       ClearAttempted, SetPosted, StoreFault, Finance, FinanceDelete,
       FinanceReuse
<1>3. \/ UNCHANGED subs \/ subs' = [s \in Submitters |-> "idle"]
      \/ \E s, x : subs' = [subs EXCEPT ![s] = x]
  BY DEF CashNext, Queue, Submit, SubmitValidate, SubmitPrepare,
       SubmitLookup, SubmitMarkPosted, SubmitRemoveFailed,
       SubmitStorePrepare, ReplaceDeleteGroups, ReplaceInsertGroups,
       ReplaceUpsertJob, SubmitAdd, Control, PauseRead, PauseSet,
       ResumeRead, ResumeClear, ResumeFindJob, RequeueCheck, RequeueAdd,
       MarkQueued, DeleteRead, DeletePause, DeleteRedisJob, DeletePurge,
       DeleteBatch, Boot, ReleaseRead, ForceRemove, Restore, Processor,
       MarkActive, ListGroups, CheckPause, RecordWorkerStopped,
       MarkGroupActive, CompleteGroup, CountGroup, MarkCompleted, FailJob,
       CancelBatch, Return, Throw, PickUp, PromoteDelayed, Stalled, Crash,
       FindHeader, QueryRejected, RelinkHeader, VerifyHeader, CreateHeader,
       SetCreatedHeader, RecreateHeader, PostHeaderAndLines,
       HeaderRejected, HeaderUnanswered, PostLines, PostLinesRepeated,
       PostLinesRejected, WriteLines, StoreAttemptedIds, CompleteBatch,
       ClearAttempted, SetPosted, StoreFault, Finance, FinanceDelete,
       FinanceReuse, SubGoto
<1>4. IsBatch(batch)'
  BY <1>1 DEF SideTyped, IsBatch
<1>5. IsRedis(redis)'
  <2>1. IsRedis(redis)
    BY DEF SideTyped
  <2>2. ASSUME NEW x, NEW y,
               \/ redis' = [redis EXCEPT !.state = x]
               \/ redis' = [redis EXCEPT !.state = x, !.stalled = y]
               \/ redis' = [redis EXCEPT !.attempts = redis.attempts + 1, !.state = x]
        PROVE  IsRedis(redis)'
    <3>1. CASE redis' = [redis EXCEPT !.state = x]
      BY <2>1, <3>1 DEF IsRedis
    <3>2. CASE redis' = [redis EXCEPT !.state = x, !.stalled = y]
      BY <2>1, <3>2 DEF IsRedis
    <3>3. CASE redis' = [redis EXCEPT !.attempts = redis.attempts + 1, !.state = x]
      <4>1. PICK a \in Nat : a = redis.attempts + 1
        BY <2>1 DEF IsRedis
      <4>2. redis' = [redis EXCEPT !.attempts = a, !.state = x]
        BY <3>3, <4>1
      <4>3. redis' = [state |-> x, attempts |-> a, stalled |-> redis.stalled]
        BY <2>1, <4>2 DEF IsRedis
      <4>4. QED
        BY <4>3 DEF IsRedis
    <3>4. QED
      BY <2>2, <3>1, <3>2, <3>3
  <2>3. ASSUME redis' = NoRedisJob \/ redis' = NewRedisJob PROVE IsRedis(redis)'
    BY <2>3 DEF IsRedis, NoRedisJob, NewRedisJob
  <2>4. ASSUME UNCHANGED redis PROVE IsRedis(redis)'
    BY <2>1, <2>4 DEF IsRedis
  <2>5. QED
    BY <1>2, <2>2, <2>3, <2>4, Zenon
<1>6. DOMAIN subs' = Submitters
  BY <1>3 DEF SideTyped
<1>7. spent' \in Spendings
  BY SpentStep DEF SideTyped, Spendings
<1>8. \/ UNCHANGED job \/ \E x, y : job' = [status |-> x, completed |-> y]
      \/ \E x : job' = [job EXCEPT !.status = x] \/ job' = [job EXCEPT !.completed = x]
  BY DEF CashNext, Queue, Submit, SubmitValidate, SubmitPrepare,
       SubmitLookup, SubmitMarkPosted, SubmitRemoveFailed,
       SubmitStorePrepare, ReplaceDeleteGroups, ReplaceInsertGroups,
       ReplaceUpsertJob, SubmitAdd, Control, PauseRead, PauseSet,
       ResumeRead, ResumeClear, ResumeFindJob, RequeueCheck, RequeueAdd,
       MarkQueued, DeleteRead, DeletePause, DeleteRedisJob, DeletePurge,
       DeleteBatch, Boot, ReleaseRead, ForceRemove, Restore, Processor,
       MarkActive, ListGroups, CheckPause, RecordWorkerStopped,
       MarkGroupActive, CompleteGroup, CountGroup, MarkCompleted, FailJob,
       CancelBatch, Return, Throw, PickUp, PromoteDelayed, Stalled, Crash,
       FindHeader, QueryRejected, RelinkHeader, VerifyHeader, CreateHeader,
       SetCreatedHeader, RecreateHeader, PostHeaderAndLines,
       HeaderRejected, HeaderUnanswered, PostLines, PostLinesRepeated,
       PostLinesRejected, WriteLines, StoreAttemptedIds, CompleteBatch,
       ClearAttempted, SetPosted, StoreFault, Finance, FinanceDelete,
       FinanceReuse, SetJobStatus
<1>9. IsJob(job)'
  BY <1>8 DEF SideTyped, IsJob
<1>10. QED
  BY <1>4, <1>5, <1>6, <1>7, <1>9 DEF SideTyped

(* The counters only grow: what a step ends in it has started from.        *)
LEMMA SpentGrows ==
  ASSUME ListTyped, CashNext
  PROVE  /\ spent.submits <= spent'.submits /\ spent.crashes <= spent'.crashes
         /\ spent.submits \in Nat /\ spent'.submits \in Nat
         /\ spent'.crashes = 0 => spent.crashes = 0
         /\ (Calm' => Calm) /\ (Alone' => Alone)
<1>1. outside \in [cleanups : Nat, lost : Nat] /\ spent \in Spendings
  BY DEF ListTyped, SideTyped, CashTyped
<1>2. /\ spent.submits <= spent'.submits /\ spent.crashes <= spent'.crashes
      /\ spent.submits \in Nat /\ spent'.submits \in Nat
      /\ spent'.crashes = 0 => spent.crashes = 0
  BY <1>1, SpentStep DEF Spendings
<1>3. outside'.lost = 0 => outside.lost = 0
  BY <1>1, LostStep
<1>4. QED
  BY <1>2, <1>3 DEF Calm, Alone

(* The numbers of the journals of a run.                                   *)
LEMMA CreatedStep ==
  ASSUME ListTyped, CashNext
  PROVE  worker'.created \in Seq(Nat)
<1>0. /\ worker.created \in Seq(Nat) /\ Len(fo) + 1 \in Nat /\ CashTyped
      /\ \A h \in HeaderIds : h \in Nat
  BY SeqFacts DEF ListTyped, RunTyped
<1>1. ASSUME NEW p, Goto(p) PROVE worker'.created \in Seq(Nat)
  BY <1>0, <1>1, GotoKeeps
<1>2. CASE UNCHANGED worker
  BY <1>0, <1>2
<1>3. CASE Ends
  <2>1. worker'.created = <<>>
    BY <1>3, EndsIdle
  <2>2. QED
    BY <2>1
<1>4. CASE Leaves \/ Walks \/ Writes
  BY <1>0, <1>1, <1>4, LeavesLoop, WalksOn, WritesLines
<1>5. CASE Reads
  BY <1>0, <1>5, ReadsTo
<1>6. CASE Opens
  <2>1. CASE FindHeader
    BY <1>0, <2>1, FindsKey
  <2>2. CASE RelinkHeader \/ SetCreatedHeader \/ HeaderUnanswered
    BY <1>0, <1>1, <1>2, <2>2, RecordsKey, UnansweredKey
  <2>3. CASE VerifyHeader
    <3>1. Append(worker.created, worker.key) \in Seq(Nat)
      BY <1>0, <2>3, VerifiesKey, AppendElements
    <3>2. QED
      BY <1>0, <2>3, <3>1, VerifiesKey
  <2>4. CASE CreateHeader
    <3>1. Append(worker.created, Len(fo) + 1) \in Seq(Nat)
      BY <1>0, AppendElements
    <3>2. QED
      BY <1>0, <2>4, <3>1, CreatesKey
  <2>5. CASE RecreateHeader
    <3>1. Seqs!RemoveFirst(worker.created, worker.key) \in Seq(Nat)
      BY <1>0, RemoveFirstElements, RemoveFirstAbsent
    <3>2. QED
      BY <1>0, <2>5, <3>1, RecreatesKey
  <2>6. QED
    BY <1>6, <2>1, <2>2, <2>3, <2>4, <2>5 DEF Opens
<1>7. CASE Finance \/ Aside
  BY <1>0, <1>2, <1>7, FinanceFrame DEF Aside
<1>8. QED
  BY <1>0, <1>3, <1>4, <1>5, <1>6, <1>7, Kinds

(* At a group the processor has a group; before the groups are read it has *)
(* none; and it completes a group with a journal.                          *)
LEMMA RunStep ==
  ASSUME ListTyped, CashNext
  PROVE  RunTyped'
<1>0. /\ CashTyped /\ CashTyped' /\ Groups = 1..N /\ N \in Nat
      /\ HeaderIds \subseteq HeaderIds'
  BY CashStep, SeqFacts, NumbersGrow DEF ListTyped
<1> DEFINE Rest == /\ worker'.pc = "count" => worker'.at \in Groups
                   /\ worker'.pc \in {"start", "list"} => worker'.at = 0
                   /\ worker'.pc = "complete" => worker'.key \in HeaderIds'
<1>9. SUFFICES Rest
  <2>1. ASSUME Rest PROVE worker'.pc \in OfGroup => worker'.at \in Groups
    BY <1>0, <2>1 DEF CashTyped, OfGroup
  <2>2. QED
    BY <2>1, CreatedStep DEF RunTyped
<1>1. CASE Finance \/ Aside
  <2>1. UNCHANGED worker
    BY <1>0, <1>1, FinanceFrame DEF Aside
  <2>2. QED
    BY <1>0, <2>1 DEF ListTyped, RunTyped, OfGroup
<1>2. CASE Ends
  BY <1>2, EndsIdle
<1>3. CASE Leaves
  <2>1. PICK p \in OutOfLoop : Goto(p) /\ (p = "list" => worker.pc = "start")
    BY <1>3, LeavesLoop
  <2>2. worker'.pc = p /\ worker'.at = worker.at
    BY <1>0, <2>1, GotoKeeps
  <2>3. QED
    BY <2>1, <2>2 DEF OutOfLoop, ListTyped, RunTyped
<1>4. CASE Walks
  BY <1>0, <1>4, WalksOn, GotoKeeps
<1>5. CASE Reads
  BY <1>0, <1>5, ReadsTo
<1>6. CASE Opens
  <2>1. worker'.pc \in AtJournal \cup {"complete", "caught"}
    BY <1>0, <1>6, OpensTo
  <2>2. worker'.pc = "complete" => worker.pc = "verify" /\ worker'.key = worker.key
    BY <1>0, <1>6, OpensTo
  <2>3. worker.pc = "verify" => worker.key \in HeaderIds
    BY <1>0 DEF CashTyped, AtJournal
  <2>4. QED
    BY <1>0, <2>1, <2>2, <2>3 DEF AtJournal
<1>7. CASE Writes
  <2>1. worker.key \in HeaderIds /\ (Goto("complete") \/ Goto("caught"))
    BY <1>0, <1>7, WritesLines
  <2>2. worker'.key = worker.key /\ worker'.pc \in {"complete", "caught"}
    BY <1>0, <2>1, GotoKeeps
  <2>3. QED
    BY <1>0, <2>1, <2>2
<1>8. QED
  BY <1>0, <1>1, <1>2, <1>3, <1>4, <1>5, <1>6, <1>7, Kinds

LEMMA TypedStep ==
  ASSUME ListTyped, CashNext
  PROVE  ListTyped'
BY RunStep, SideStep, CashStep DEF ListTyped

-----------------------------------------------------------------------------
(* One request.                                                            *)

(* What a step does to the requests.                                       *)
LEMMA RequestSteps ==
  ASSUME ListTyped, CashNext
  PROVE  \/ UNCHANGED subs \/ subs' = [s \in Submitters |-> "idle"]
         \/ \E s \in Submitters : \E p :
              /\ Submit(s) /\ subs' = [subs EXCEPT ![s] = p]
              /\ subs[s] = "idle" => spent'.submits = spent.submits + 1
              /\ p = "markPosted" => /\ subs[s] = "lookup" /\ redis.state = "completed"
                                     /\ AlreadyMarksPosted
              /\ \/ subs[s] \in Preparing \cup {"remove", "idle"} /\ p \in Preparing
                 \/ p \in {"markPosted", "remove"} /\ subs[s] = "lookup" /\ redis.state # "absent"
                 \/ subs[s] # "idle" /\ p \in {"idle", "add"}
<1>1. ASSUME NEW s \in Submitters, Submit(s)
      PROVE  \E p :
              /\ subs' = [subs EXCEPT ![s] = p]
              /\ subs[s] = "idle" => spent'.submits = spent.submits + 1
              /\ p = "markPosted" => /\ subs[s] = "lookup" /\ redis.state = "completed"
                                     /\ AlreadyMarksPosted
              /\ \/ subs[s] \in Preparing \cup {"remove", "idle"} /\ p \in Preparing
                 \/ p \in {"markPosted", "remove"} /\ subs[s] = "lookup" /\ redis.state # "absent"
                 \/ subs[s] # "idle" /\ p \in {"idle", "add"}
  <2>1. CASE SubmitValidate(s)
    BY <2>1 DEF SubmitValidate, Spend, SubGoto, ListTyped, SideTyped, Spendings, Preparing
  <2>2. CASE SubmitLookup(s)
    BY <2>2 DEF SubmitLookup, SubGoto, Preparing
  <2>3. CASE SubmitRemoveFailed(s) \/ SubmitStorePrepare(s) \/ ReplaceInsertGroups(s)
    BY <2>3 DEF SubmitRemoveFailed, SubmitStorePrepare, ReplaceInsertGroups, SubGoto, Preparing
  <2>4. CASE \/ SubmitPrepare(s) \/ SubmitMarkPosted(s) \/ ReplaceDeleteGroups(s)
             \/ ReplaceUpsertJob(s) \/ SubmitAdd(s)
    BY <2>4 DEF SubmitPrepare, SubmitMarkPosted, ReplaceDeleteGroups, ReplaceUpsertJob, SubmitAdd,
       SubGoto, Preparing
  <2>5. QED
    BY <1>1, <2>1, <2>2, <2>3, <2>4 DEF Submit
<1>2. CASE \E s \in Submitters : Submit(s)
  BY <1>1, <1>2
<1>3. CASE ~(\E s \in Submitters : Submit(s))
  BY <1>3 DEF CashNext, Queue, Control, PauseRead, PauseSet, ResumeRead,
       ResumeClear, ResumeFindJob, RequeueCheck, RequeueAdd, MarkQueued,
       DeleteRead, DeletePause, DeleteRedisJob, DeletePurge, DeleteBatch,
       Boot, ReleaseRead, ForceRemove, Restore, Processor, MarkActive,
       ListGroups, CheckPause, RecordWorkerStopped, MarkGroupActive,
       CompleteGroup, CountGroup, MarkCompleted, FailJob, CancelBatch,
       Return, Throw, PickUp, PromoteDelayed, Stalled, Crash, FindHeader,
       QueryRejected, RelinkHeader, VerifyHeader, CreateHeader,
       SetCreatedHeader, RecreateHeader, PostHeaderAndLines,
       HeaderRejected, HeaderUnanswered, PostLines, PostLinesRepeated,
       PostLinesRejected, WriteLines, StoreAttemptedIds, CompleteBatch,
       ClearAttempted, SetPosted, StoreFault, Finance, FinanceDelete,
       FinanceReuse
<1>4. QED
  BY <1>2, <1>3

LEMMA UntouchedSteps ==
  ASSUME ListTyped, CashNext, Untouched
  PROVE  \/ Crash \/ Boot \/ Control
         \/ \E s \in Submitters : Submit(s)
<1>1. ~PickUp /\ ~PromoteDelayed /\ ~Stalled /\ ~Processor
  BY DEF Untouched, PickUp, PromoteDelayed, Stalled, Processor, MarkActive,
       ListGroups, CheckPause, RecordWorkerStopped, MarkGroupActive,
       CompleteGroup, CountGroup, MarkCompleted, FailJob, CancelBatch,
       Return, Throw
<1>2. HeaderIds = {}
  BY DEF Untouched, HeaderIds
<1>3. ~Finance
  BY <1>2 DEF Finance
<1>4. /\ ~FindHeader /\ ~QueryRejected /\ ~RelinkHeader /\ ~VerifyHeader
      /\ ~CreateHeader /\ ~SetCreatedHeader /\ ~RecreateHeader
      /\ ~PostHeaderAndLines /\ ~StoreAttemptedIds /\ ~CompleteBatch
      /\ ~ClearAttempted /\ ~SetPosted /\ ~StoreFault
  BY DEF Untouched, FindHeader, QueryRejected, RelinkHeader, VerifyHeader,
       CreateHeader, SetCreatedHeader, RecreateHeader, PostHeaderAndLines,
       HeaderRejected, HeaderUnanswered, PostLines, PostLinesRepeated,
       PostLinesRejected, WriteLines, StoreAttemptedIds, CompleteBatch,
       ClearAttempted, SetPosted, StoreFault, Finance, FinanceDelete,
       FinanceReuse, AtLines
<1>5. QED
  BY <1>1, <1>3, <1>4 DEF CashNext, Queue

LEMMA StaysUntouched ==
  ASSUME ListTyped, CashNext, Untouched,
         \A s \in Submitters :
           Submit(s) => subs[s] \notin {"remove", "markPosted", "upsertJob", "add"}
  PROVE  Untouched'
<1>0. IsBatch(batch)
  BY DEF ListTyped, SideTyped
<1>1. CASE \E s \in Submitters : Submit(s)
  <2>1. PICK s \in Submitters : Submit(s)
    BY <1>1
  <2>2. subs[s] \notin {"remove", "markPosted", "upsertJob", "add"}
    BY <2>1
  <2>3. UNCHANGED <<fo, job, redis, worker, ctl>>
    BY <2>1, <2>2 DEF Submit, SubmitValidate, SubmitPrepare,
         SubmitLookup, SubmitMarkPosted, SubmitRemoveFailed,
         SubmitStorePrepare, ReplaceDeleteGroups, ReplaceInsertGroups,
         ReplaceUpsertJob, SubmitAdd
  <2>4. batch'.status # "Posted"
    <3>1. UNCHANGED batch \/ SetBatchStatus("Posting")
      BY <2>1, <2>2 DEF Submit, SubmitValidate, SubmitPrepare,
           SubmitLookup, SubmitMarkPosted, SubmitRemoveFailed,
           SubmitStorePrepare, ReplaceDeleteGroups,
           ReplaceInsertGroups, ReplaceUpsertJob, SubmitAdd
    <3>2. QED
      BY <1>0, <3>1 DEF SetBatchStatus, IsBatch, Untouched
  <2>5. QED
    BY <2>3, <2>4 DEF Untouched
<1>2. CASE Control
  <2>6. batch'.status # "Posted"
    <3>1. \/ UNCHANGED batch \/ \E p : SetBatchPaused(p)
          \/ batch' = [batch EXCEPT !.exists = FALSE]
      BY <1>2 DEF Control, PauseRead, PauseSet, ResumeRead,
           ResumeClear, ResumeFindJob, RequeueCheck, RequeueAdd,
           MarkQueued, DeleteRead, DeletePause, DeleteRedisJob,
           DeletePurge, DeleteBatch
    <3>2. QED
      BY <1>0, <3>1 DEF SetBatchPaused, IsBatch, Untouched
  <2>1. UNCHANGED <<fo, worker>>
    BY <1>2 DEF Control, PauseRead, PauseSet, ResumeRead, ResumeClear,
         ResumeFindJob, RequeueCheck, RequeueAdd, MarkQueued, DeleteRead,
         DeletePause, DeleteRedisJob, DeletePurge, DeleteBatch
  <2>2. job'.status = "none"
    <3>1. \/ UNCHANGED job \/ SetJobStatus("queued")
          \/ job' = [status |-> "none", completed |-> 0]
      BY <1>2 DEF Control, PauseRead, PauseSet, ResumeRead,
           ResumeClear, ResumeFindJob, RequeueCheck, RequeueAdd,
           MarkQueued, DeleteRead, DeletePause, DeleteRedisJob,
           DeletePurge, DeleteBatch
    <3>2. QED
      BY <3>1 DEF Untouched, SetJobStatus
  <2>3. redis'.state = "absent"
    BY <1>2 DEF Control, PauseRead, PauseSet, ResumeRead, ResumeClear,
         ResumeFindJob, RequeueCheck, RequeueAdd, MarkQueued, DeleteRead,
         DeletePause, DeleteRedisJob, DeletePurge, DeleteBatch, Untouched
  <2>4. ctl' \notin {"requeueCheck", "requeueAdd", "markQueued"}
    BY <1>2 DEF Control, PauseRead, PauseSet, ResumeRead, ResumeClear,
         ResumeFindJob, RequeueCheck, RequeueAdd, MarkQueued, DeleteRead,
         DeletePause, DeleteRedisJob, DeletePurge, DeleteBatch, Untouched
  <2>5. QED
    BY <2>1, <2>2, <2>3, <2>4, <2>6 DEF Untouched
<1>3. CASE Boot
  BY <1>3 DEF Boot, ReleaseRead, ForceRemove, Restore, Untouched,
       NoRedisJob, Recoverable
<1>4. CASE Crash
  BY <1>4 DEF Crash, Untouched, IdleWorker
<1>5. QED
  BY <1>1, <1>2, <1>3, <1>4, UntouchedSteps

LEMMA RequestStep ==
  ASSUME ListTyped, CashNext, RequestInv
  PROVE  RequestInv'
<1>1. SUFFICES ASSUME spent'.submits <= 1
               PROVE  /\ spent'.submits = 0 => \A s \in Submitters : subs'[s] = "idle"
                      /\ \A s, t \in Submitters : subs'[s] # "idle" /\ subs'[t] # "idle" => s = t
                      /\ \A s \in Submitters : subs'[s] \in Preparing \cup {"idle", "add"}
                      /\ Fresh' => Untouched'
  BY DEF RequestInv
<1>2. spent.submits <= spent'.submits /\ spent.submits \in Nat /\ spent'.submits \in Nat
  BY SpentGrows
<1>3. /\ spent.submits = 0 => \A s \in Submitters : subs[s] = "idle"
      /\ \A s, t \in Submitters : subs[s] # "idle" /\ subs[t] # "idle" => s = t
      /\ \A s \in Submitters : subs[s] \in Preparing \cup {"idle", "add"}
      /\ Fresh => Untouched
  BY <1>1, <1>2 DEF RequestInv
<1>4. DOMAIN subs = Submitters /\ "idle" \notin Preparing /\ "add" \notin Preparing
  BY DEF ListTyped, SideTyped, Preparing
<1>5. CASE UNCHANGED subs
  <2>1. /\ \A s, t \in Submitters : subs'[s] # "idle" /\ subs'[t] # "idle" => s = t
        /\ \A s \in Submitters : subs'[s] \in Preparing \cup {"idle", "add"}
        /\ spent'.submits = 0 => \A s \in Submitters : subs'[s] = "idle"
        /\ Fresh' => Fresh
    BY <1>2, <1>3, <1>5 DEF Fresh
  <2>2. ASSUME Fresh' PROVE Untouched'
    <3>1. Untouched
      BY <1>3, <2>1, <2>2
    <3>2. ASSUME NEW s \in Submitters, Submit(s)
          PROVE  subs[s] \notin {"remove", "markPosted", "upsertJob", "add"}
      BY <1>4, <1>5, <3>2 DEF Submit, SubmitValidate, SubmitPrepare,
           SubmitLookup, SubmitMarkPosted, SubmitRemoveFailed,
           SubmitStorePrepare, ReplaceDeleteGroups,
           ReplaceInsertGroups, ReplaceUpsertJob, SubmitAdd, SubGoto
    <3>3. QED
      BY <3>1, <3>2, StaysUntouched
  <2>3. QED
    BY <2>1, <2>2
<1>6. CASE subs' = [s \in Submitters |-> "idle"]
  <2>1. ASSUME Fresh' PROVE Untouched'
    <3>1. spent.submits = 0
      BY <1>2, <1>4, <1>6, <2>1 DEF Fresh
    <3>2. Untouched /\ \A s \in Submitters : subs[s] = "idle"
      BY <1>3, <3>1 DEF Fresh
    <3>3. QED
      BY <3>2, StaysUntouched
  <2>2. QED
    BY <1>6, <2>1, <1>4
<1>7. ASSUME NEW s \in Submitters, NEW p,
             Submit(s), subs' = [subs EXCEPT ![s] = p],
             subs[s] = "idle" => spent'.submits = spent.submits + 1,
             \/ subs[s] \in Preparing \cup {"remove", "idle"} /\ p \in Preparing
             \/ p \in {"markPosted", "remove"} /\ subs[s] = "lookup" /\ redis.state # "absent"
             \/ subs[s] # "idle" /\ p \in {"idle", "add"}
      PROVE  /\ spent'.submits = 0 => \A t \in Submitters : subs'[t] = "idle"
             /\ \A t, u \in Submitters : subs'[t] # "idle" /\ subs'[u] # "idle" => t = u
             /\ \A t \in Submitters : subs'[t] \in Preparing \cup {"idle", "add"}
             /\ Fresh' => Untouched'
  <2>1. subs'[s] = p /\ \A t \in Submitters \ {s} : subs'[t] = subs[t]
    BY <1>4, <1>7
  <2>2. spent'.submits # 0
    BY <1>2, <1>3, <1>7
  <2>3. \A t \in Submitters \ {s} : subs[t] = "idle"
    BY <1>1, <1>2, <1>3, <1>7
  <2>4. p \in Preparing \cup {"idle", "add"}
    <3>1. ASSUME subs[s] = "lookup" PROVE redis.state = "absent"
      BY <1>3, <3>1 DEF Fresh, Preparing, Untouched
    <3>2. QED
      BY <1>7, <3>1
  <2>5. ASSUME Fresh' PROVE Untouched'
    <3>1. p \in Preparing /\ subs[s] \in Preparing \cup {"idle"}
      <4>1. p \in Preparing
        BY <1>4, <2>1, <2>2, <2>3, <2>5 DEF Fresh
      <4>2. QED
        BY <1>3, <1>4, <1>7, <4>1 DEF Preparing
    <3>2. Fresh
      BY <1>1, <1>2, <1>7, <3>1 DEF Fresh
    <3>3. ASSUME NEW t \in Submitters, Submit(t)
          PROVE  subs[t] \notin {"remove", "markPosted", "upsertJob", "add"}
      <4>1. CASE t = s
        <5>1. subs[s] # "upsertJob"
          <6>1. ASSUME subs[s] = "upsertJob" PROVE p = "add"
            BY <1>4, <1>7, <2>1, <6>1 DEF Submit, SubmitValidate,
                 SubmitPrepare, SubmitLookup, SubmitMarkPosted,
                 SubmitRemoveFailed, SubmitStorePrepare,
                 ReplaceDeleteGroups, ReplaceInsertGroups,
                 ReplaceUpsertJob, SubmitAdd, SubGoto
          <6>2. QED
            BY <1>4, <3>1, <6>1
        <5>2. QED
          BY <3>1, <4>1, <5>1 DEF Preparing
      <4>2. CASE t # s
        BY <2>3, <4>2
      <4>3. QED
        BY <4>1, <4>2
    <3>4. QED
      BY <1>3, <3>2, <3>3, StaysUntouched
  <2>6. QED
    BY <1>4, <2>1, <2>2, <2>3, <2>4, <2>5
<1>9. QED
  BY <1>5, <1>6, <1>7, RequestSteps


-----------------------------------------------------------------------------
(* Requests one at a time, in a process that does not crash.               *)

(* What a step of the processor inside a run does to the rest.             *)
Runs == Leaves \/ Walks \/ Reads \/ Opens \/ Writes

LEMMA RunsTo ==
  ASSUME ListTyped, Runs
  PROVE  /\ UNCHANGED <<redis, subs, ctl, boot>>
         /\ worker.pc \notin {"idle", "return", "throw"} /\ worker'.pc \notin {"idle", "start"}
         /\ worker'.attempt = worker.attempt
         /\ worker'.pc = "cancel" => isFinalAttempt
         /\ \/ job'.status = job.status /\ (worker.pc = "start" => worker'.pc = "throw")
            \/ job'.status # "paused"
            \/ worker.pc = "stop" /\ worker'.pc = "return"
         /\ \/ batch'.exists = batch.exists /\ batch'.status = batch.status
            \/ batch'.status = "Posted"
            \/ worker.pc = "cancel" /\ worker'.pc = "throw"
         /\ spent'.crashes = spent.crashes
<1>0. CashTyped /\ IsWorker(worker) /\ IsJob(job) /\ IsBatch(batch)
  BY DEF ListTyped, SideTyped, CashTyped
<1>1. /\ UNCHANGED <<redis, subs, ctl, boot>>
      /\ worker.pc \notin {"idle", "return", "throw"}
  BY DEF Runs, Leaves, Walks, Reads, Opens, Writes, QueryRejected, HeaderRejected, StoreFault,
     MarkActive, ClearAttempted, RecordWorkerStopped, MarkCompleted, FailJob, CancelBatch,
     StoreAttemptedIds, CompleteBatch, SetPosted, MarkGroupActive, CompleteGroup, CountGroup,
     ListGroups, CheckPause, FindHeader, RelinkHeader, VerifyHeader, CreateHeader,
     HeaderUnanswered, SetCreatedHeader, RecreateHeader, PostLines, PostLinesRepeated,
     PostLinesRejected, WriteLines, AtLines
<1>2. UNCHANGED spent \/ spent' = [spent EXCEPT !["faults"] = @ + 1]
  BY DEF Runs, Leaves, Walks, Reads, Opens, Writes, QueryRejected, HeaderRejected, StoreFault,
     MarkActive, ClearAttempted, RecordWorkerStopped, MarkCompleted, FailJob, CancelBatch,
     StoreAttemptedIds, CompleteBatch, SetPosted, MarkGroupActive, CompleteGroup, CountGroup,
     ListGroups, CheckPause, FindHeader, RelinkHeader, VerifyHeader, CreateHeader,
     HeaderUnanswered, SetCreatedHeader, RecreateHeader, PostLines, PostLinesRepeated,
     PostLinesRejected, WriteLines, Spend
<1>3. spent'.crashes = spent.crashes
  BY <1>2 DEF ListTyped, SideTyped, Spendings
<1>4. CASE Leaves
  <2>1. PICK p \in OutOfLoop :
          /\ Goto(p)
          /\ p = "cancel" => isFinalAttempt
          /\ \/ UNCHANGED job /\ (worker.pc = "start" => p = "throw")
             \/ SetJobStatus("active") \/ SetJobStatus("completed") \/ SetJobStatus("failed")
             \/ SetJobStatus("retrying")
             \/ worker.pc = "stop" /\ p = "return"
          /\ \/ UNCHANGED batch \/ SetBatchStatus("Posted")
             \/ \E ids : SetDfoIds(ids)
             \/ worker.pc = "cancel" /\ p = "throw"
    BY <1>4 DEF Leaves, QueryRejected, HeaderRejected, StoreFault, MarkActive, ClearAttempted,
         RecordWorkerStopped, MarkCompleted, FailJob, CancelBatch, StoreAttemptedIds,
         CompleteBatch, SetPosted, OutOfLoop
  <2>2. /\ worker'.pc = p /\ worker'.attempt = worker.attempt
    BY <1>0, <2>1, GotoKeeps
  <2>3. \/ job'.status = job.status /\ (worker.pc = "start" => p = "throw")
        \/ job'.status # "paused"
        \/ worker.pc = "stop" /\ p = "return"
    BY <1>0, <2>1 DEF SetJobStatus, IsJob
  <2>4. \/ batch'.exists = batch.exists /\ batch'.status = batch.status
        \/ batch'.status = "Posted"
        \/ worker.pc = "cancel" /\ p = "throw"
    BY <1>0, <2>1 DEF SetBatchStatus, SetDfoIds, IsBatch
  <2>5. p \notin {"idle", "start"}
    BY <2>1 DEF OutOfLoop
  <2>6. QED
    BY <1>1, <1>3, <2>1, <2>2, <2>3, <2>4, <2>5
<1> DEFINE Calmly == /\ worker'.attempt = worker.attempt
                     /\ worker'.pc \notin {"idle", "start", "cancel"} /\ worker.pc # "start"
                     /\ job'.status = job.status /\ UNCHANGED batch
<1>5. CASE Walks
  <2>1. job'.status = job.status
    BY <1>0, <1>5 DEF Walks, MarkGroupActive, CompleteGroup, CountGroup, IsJob
  <2>2. Calmly
    BY <1>0, <1>5, <2>1, WalksOn, GotoKeeps DEF Loop, OfGroup, InLoop, AtJournal
  <2>3. QED
    BY <1>1, <1>3, <2>2
<1>6. CASE Reads
  <2>1. UNCHANGED job
    BY <1>6 DEF Reads, ListGroups, CheckPause
  <2>2. Calmly
    BY <1>0, <1>6, <2>1, ReadsTo
  <2>3. QED
    BY <1>1, <1>3, <2>2
<1>7. CASE Opens
  <2>1. UNCHANGED job
    BY <1>7 DEF Opens, FindHeader, RelinkHeader, VerifyHeader, CreateHeader,
       HeaderUnanswered, SetCreatedHeader, RecreateHeader
  <2>2. Calmly
    BY <1>0, <1>7, <2>1, OpensTo DEF AtJournal
  <2>3. QED
    BY <1>1, <1>3, <2>2
<1>8. CASE Writes
  <2>1. Calmly
    BY <1>0, <1>8, WritesLines, GotoKeeps
  <2>2. QED
    BY <1>1, <1>3, <2>1
<1>9. QED
  BY <1>4, <1>5, <1>6, <1>7, <1>8 DEF Runs

LEMMA RunsOrder ==
  ASSUME ListTyped, OrderInv, Runs
  PROVE  OrderInv'
<1>1. /\ UNCHANGED <<redis, subs, ctl, boot>>
      /\ worker.pc \notin {"idle", "return", "throw"} /\ worker'.pc \notin {"idle", "start"}
      /\ worker'.attempt = worker.attempt
      /\ worker'.pc = "cancel" => isFinalAttempt
      /\ \/ job'.status = job.status /\ (worker.pc = "start" => worker'.pc = "throw")
         \/ job'.status # "paused"
         \/ worker.pc = "stop" /\ worker'.pc = "return"
      /\ \/ batch'.exists = batch.exists /\ batch'.status = batch.status
         \/ batch'.status = "Posted"
         \/ worker.pc = "cancel" /\ worker'.pc = "throw"
  BY RunsTo
<1>2. /\ redis.state = "active" /\ redis.attempts = worker.attempt
      /\ \A s \in Submitters : subs[s] = "idle"
      /\ batch.exists => batch.status \in {"Posting", "Posted"}
  BY <1>1 DEF OrderInv, QueueInv, AskInv, StatusInv, GivenUp
<1>3. QueueInv'
  BY <1>1, <1>2 DEF OrderInv, QueueInv, isFinalAttempt
<1>4. AskInv'
  BY <1>1, <1>2 DEF AskInv, Storing
<1>5. job.status = "paused" => worker.pc = "start" /\ ctl = "markQueued"
  BY <1>1 DEF OrderInv, PauseInv
<1>6. PauseInv'
  <2>1. ctl \notin Requeueing
    BY <1>1, <1>5 DEF OrderInv, PauseInv, Requeueing
  <2>2. QED
    BY <1>1, <1>2, <1>5, <2>1 DEF PauseInv, Requeueing
<1>7. StatusInv'
  <2>1. CASE worker.pc = "cancel" /\ worker'.pc = "throw"
    <3>1. GivenUp'
      BY <1>1, <1>2, <2>1 DEF OrderInv, QueueInv, GivenUp, isFinalAttempt
    <3>2. job'.status # "paused"
      BY <1>1, <1>5, <2>1
    <3>3. QED
      BY <1>1, <1>2, <3>1, <3>2 DEF StatusInv
  <2>2. CASE batch'.exists => batch'.status \in {"Posting", "Posted"}
    BY <2>2 DEF StatusInv
  <2>3. QED
    BY <1>1, <1>2, <2>1, <2>2
<1>8. QED
  BY <1>3, <1>4, <1>6, <1>7 DEF OrderInv

LEMMA SubmitOrder ==
  ASSUME ListTyped, OneAtATime, OrderInv, NEW s \in Submitters, Submit(s)
  PROVE  OrderInv'
<1>0. /\ IsBatch(batch) /\ IsJob(job) /\ IsRedis(redis) /\ DOMAIN subs = Submitters
      /\ \A t \in Submitters : t = s
  BY DEF ListTyped, SideTyped, OneAtATime
<1>1. UNCHANGED <<worker, ctl, boot>>
  BY DEF Submit, SubmitValidate, SubmitPrepare, SubmitLookup,
       SubmitMarkPosted, SubmitRemoveFailed, SubmitStorePrepare,
       ReplaceDeleteGroups, ReplaceInsertGroups, ReplaceUpsertJob,
       SubmitAdd
<1>2. ASSUME NEW p, SubGoto(s, p) PROVE \A t \in Submitters : subs'[t] = p
  BY <1>0, <1>2 DEF SubGoto
<1>3. CASE SubmitValidate(s)
  <2>1. /\ subs[s] = "idle" /\ \A t \in Submitters : subs'[t] = "prepare"
        /\ UNCHANGED <<job, redis, batch>> /\ batch.exists
        /\ batch.status \notin {"Posting", "Posted"}
    BY <1>2, <1>3 DEF SubmitValidate
  <2>2. (redis.state \in {"absent", "failed"} \/ GivenUp) /\ job.status # "paused"
    BY <2>1 DEF OrderInv, StatusInv
  <2>3. QED
    BY <1>0, <1>1, <2>1, <2>2
    DEF OrderInv, QueueInv, AskInv, PauseInv, StatusInv, GivenUp, Storing, Requeueing,
        isFinalAttempt
<1>4. ASSUME subs[s] # "idle"
      PROVE  /\ worker.pc = "idle" \/ GivenUp
             /\ redis.state \in {"absent", "failed", "active"}
             /\ job.status # "paused" /\ batch.status # "Posted" /\ ctl \notin Requeueing
             /\ subs[s] = "remove" => redis.state = "failed"
             /\ subs[s] \in Storing => redis.state = "absent"
             /\ subs[s] # "markPosted"
             /\ subs[s] # "prepare" /\ batch.exists => batch.status \in {"Posting", "Posted"}
  BY <1>4 DEF OrderInv, AskInv, PauseInv, StatusInv
<1>5. CASE SubmitPrepare(s)
  <2>1. /\ subs[s] = "prepare" /\ \A t \in Submitters : subs'[t] = "lookup"
        /\ UNCHANGED <<job, redis>> /\ SetBatchStatus("Posting")
    BY <1>2, <1>5 DEF SubmitPrepare
  <2>2. batch'.status # "Posted" /\ (batch'.exists => batch'.status = "Posting")
    BY <1>0, <1>4, <2>1 DEF SetBatchStatus, IsBatch
  <2>3. QED
    BY <1>1, <1>4, <2>1, <2>2
    DEF OrderInv, QueueInv, AskInv, PauseInv, StatusInv, GivenUp, Storing, isFinalAttempt
<1>6. CASE SubmitLookup(s)
  <2>1. subs[s] = "lookup" /\ UNCHANGED <<job, redis, batch>>
    BY <1>6 DEF SubmitLookup
  <2>2. \/ redis.state = "absent" /\ \A t \in Submitters : subs'[t] = "storePrepare"
        \/ redis.state = "failed" /\ \A t \in Submitters : subs'[t] = "remove"
        \/ \A t \in Submitters : subs'[t] = "idle"
    BY <1>2, <1>4, <1>6, <2>1 DEF SubmitLookup
  <2>3. batch.exists => batch.status \in {"Posting", "Posted"}
    BY <1>4, <2>1
  <2>4. AskInv'
    BY <1>1, <1>4, <2>1, <2>2 DEF AskInv, Storing, GivenUp
  <2>5. QED
    BY <1>1, <2>1, <2>3, <2>4
    DEF OrderInv, QueueInv, PauseInv, StatusInv, GivenUp, isFinalAttempt
<1>7. CASE SubmitRemoveFailed(s)
  <2>1. subs[s] = "remove" /\ redis.state = "failed" /\ UNCHANGED <<job, batch>>
    BY <1>4, <1>7 DEF SubmitRemoveFailed
  <2>2. redis' = NoRedisJob /\ \A t \in Submitters : subs'[t] = "deleteGroups"
    BY <1>2, <1>7, <2>1 DEF SubmitRemoveFailed
  <2>3. redis'.state = "absent" /\ worker.pc = "idle"
    BY <2>1, <2>2 DEF NoRedisJob, OrderInv, QueueInv
  <2>4. QED
    BY <1>1, <1>4, <2>1, <2>2, <2>3
    DEF OrderInv, QueueInv, AskInv, PauseInv, StatusInv, GivenUp, Storing, isFinalAttempt
<1>8. CASE SubmitStorePrepare(s) \/ ReplaceDeleteGroups(s) \/ ReplaceInsertGroups(s)
  <2>1. /\ subs[s] \in Storing \ {"add", "upsertJob"} /\ UNCHANGED <<job, batch, redis>>
        /\ \E p \in Storing \cup {"idle"} : SubGoto(s, p)
    BY <1>8 DEF SubmitStorePrepare, ReplaceDeleteGroups, ReplaceInsertGroups, Storing
  <2>2. PICK p \in Storing \cup {"idle"} : \A t \in Submitters : subs'[t] = p
    BY <1>2, <2>1
  <2>3. /\ worker.pc = "idle" /\ redis.state = "absent"
        /\ batch.exists => batch.status \in {"Posting", "Posted"}
    BY <1>4, <2>1 DEF Storing, OrderInv, QueueInv
  <2>4. AskInv'
    BY <1>1, <1>4, <2>1, <2>2, <2>3 DEF AskInv, Storing
  <2>5. QED
    BY <1>1, <2>1, <2>3, <2>4
    DEF OrderInv, QueueInv, PauseInv, StatusInv, GivenUp, isFinalAttempt
<1>9. CASE ReplaceUpsertJob(s)
  <2>1. /\ subs[s] = "upsertJob" /\ UNCHANGED <<batch, redis>> /\ job'.status = "queued"
        /\ \A t \in Submitters : subs'[t] = "add"
    BY <1>2, <1>9 DEF ReplaceUpsertJob
  <2>2. worker.pc = "idle" /\ redis.state = "absent"
    BY <1>4, <2>1 DEF Storing, OrderInv, QueueInv
  <2>3. QED
    BY <1>1, <1>4, <2>1, <2>2
    DEF OrderInv, QueueInv, AskInv, PauseInv, StatusInv, GivenUp, Storing, Requeueing,
        isFinalAttempt
<1>10. CASE SubmitAdd(s)
  <2>1. /\ subs[s] = "add" /\ redis.state = "absent" /\ UNCHANGED <<batch, job>>
        /\ \A t \in Submitters : subs'[t] = "idle"
    BY <1>2, <1>4, <1>10 DEF SubmitAdd, Storing
  <2>2. redis'.state = "waiting" /\ worker.pc = "idle"
    BY <1>10, <2>1 DEF SubmitAdd, NewRedisJob, OrderInv, QueueInv
  <2>3. QED
    BY <1>1, <1>4, <2>1, <2>2
    DEF OrderInv, QueueInv, AskInv, PauseInv, StatusInv, GivenUp, Storing, Requeueing,
        isFinalAttempt
<1>11. ~SubmitMarkPosted(s)
  BY <1>4 DEF SubmitMarkPosted
<1>12. QED
  BY <1>3, <1>5, <1>6, <1>7, <1>8, <1>9, <1>10, <1>11 DEF Submit

LEMMA ControlOrder ==
  ASSUME ListTyped, OrderInv, Control
  PROVE  OrderInv'
<1>0. IsBatch(batch) /\ IsJob(job) /\ IsRedis(redis)
  BY DEF ListTyped, SideTyped
<1>1. UNCHANGED <<worker, subs, boot>>
  BY DEF Control, PauseRead, PauseSet, ResumeRead, ResumeClear,
       ResumeFindJob, RequeueCheck, RequeueAdd, MarkQueued, DeleteRead,
       DeletePause, DeleteRedisJob, DeletePurge, DeleteBatch
<1>2. ASSUME UNCHANGED <<job, redis>>, ctl # "markQueued", ctl' \notin Requeueing,
             \/ batch'.exists = batch.exists /\ batch'.status = batch.status
             \/ ~batch'.exists /\ batch'.status = batch.status
      PROVE  OrderInv'
  <2>1. QueueInv'
    BY <1>1, <1>2 DEF OrderInv, QueueInv, isFinalAttempt
  <2>2. GivenUp' <=> GivenUp
    BY <1>1, <1>2 DEF GivenUp
  <2>3. AskInv'
    BY <1>1, <1>2, <2>2 DEF OrderInv, AskInv
  <2>4. PauseInv'
    <3>1. ASSUME job.status = "paused"
          PROVE  /\ worker.pc \in {"idle", "return"}
                 /\ redis.state \notin {"waiting", "delayed"}
      BY <1>2, <3>1 DEF OrderInv, PauseInv
    <3>2. ctl' # "requeueAdd"
      BY <1>2 DEF Requeueing
    <3>3. QED
      BY <1>1, <1>2, <3>1, <3>2 DEF PauseInv
  <2>5. StatusInv'
    BY <1>1, <1>2, <2>2 DEF OrderInv, StatusInv
  <2>6. QED
    BY <2>1, <2>3, <2>4, <2>5 DEF OrderInv
<1>3. CASE PauseRead \/ ResumeRead \/ DeleteRead
  BY <1>2, <1>3 DEF PauseRead, ResumeRead, DeleteRead, Requeueing
<1>4. CASE PauseSet \/ ResumeClear \/ DeletePause \/ DeleteBatch
  <2>1. \/ batch'.exists = batch.exists /\ batch'.status = batch.status
        \/ ~batch'.exists /\ batch'.status = batch.status
    BY <1>0, <1>4 DEF PauseSet, ResumeClear, DeletePause, DeleteBatch, SetBatchPaused, IsBatch
  <2>2. UNCHANGED <<job, redis>> /\ ctl # "markQueued" /\ ctl' \notin Requeueing
    BY <1>4 DEF PauseSet, ResumeClear, DeletePause, DeleteBatch, Requeueing
  <2>3. QED
    BY <1>2, <2>1, <2>2
<1>5. CASE ResumeFindJob
  <2>1. /\ UNCHANGED <<job, redis, batch>> /\ ctl = "resumeFind"
        /\ ctl' = IF job.status = "paused" THEN "requeueCheck" ELSE "idle"
    BY <1>5 DEF ResumeFindJob
  <2>2. QED
    BY <1>1, <2>1
    DEF OrderInv, QueueInv, AskInv, PauseInv, StatusInv, GivenUp, Requeueing, isFinalAttempt
<1>6. ASSUME job.status = "paused"
      PROVE  /\ \A s \in Submitters : subs[s] = "idle"
             /\ batch.exists => batch.status \in {"Posting", "Posted"}
  BY <1>6 DEF OrderInv, AskInv, StatusInv
<1>7. CASE RequeueCheck
  <2>1. ctl = "requeueCheck" /\ job.status = "paused" /\ UNCHANGED <<job, batch>>
    BY <1>7 DEF RequeueCheck, OrderInv, PauseInv, Requeueing
  <2>2. CASE redis.state \in Running /\ ctl' = "idle" /\ UNCHANGED redis
    BY <1>2, <2>1, <2>2 DEF Requeueing
  <2>3. CASE redis.state \notin Running /\ redis' = NoRedisJob /\ ctl' = "requeueAdd"
    <3>1. worker.pc = "idle" /\ redis'.state = "absent"
      BY <2>3 DEF NoRedisJob, Running, OrderInv, QueueInv
    <3>2. QED
      BY <1>1, <1>6, <2>1, <2>3, <3>1
      DEF OrderInv, QueueInv, AskInv, PauseInv, StatusInv, Storing, Requeueing
  <2>4. QED
    BY <1>7, <2>2, <2>3 DEF RequeueCheck
<1>8. CASE RequeueAdd
  <2>1. /\ ctl = "requeueAdd" /\ job.status = "paused" /\ redis.state = "absent"
        /\ UNCHANGED <<job, batch>> /\ ctl' = "markQueued"
    BY <1>8 DEF RequeueAdd, OrderInv, PauseInv, Requeueing
  <2>2. worker.pc = "idle" /\ redis'.state = "waiting"
    BY <1>8, <2>1 DEF RequeueAdd, NewRedisJob, OrderInv, QueueInv
  <2>3. QED
    BY <1>1, <1>6, <2>1, <2>2
    DEF OrderInv, QueueInv, AskInv, PauseInv, StatusInv, Storing, Requeueing
<1>9. CASE MarkQueued
  <2>1. UNCHANGED <<batch, redis>> /\ ctl' = "idle" /\ job'.status # "paused"
    BY <1>0, <1>9 DEF MarkQueued, SetJobStatus, IsJob
  <2>2. QED
    BY <1>1, <2>1
    DEF OrderInv, QueueInv, AskInv, PauseInv, StatusInv, GivenUp, Requeueing, isFinalAttempt
<1>10. CASE DeleteRedisJob
  <2>1. /\ UNCHANGED <<batch, job>> /\ ctl = "deleteRedis" /\ ctl' = "deletePurge"
        /\ \/ redis.state \in {"waiting", "delayed"} /\ redis' = NoRedisJob
           \/ UNCHANGED redis
    BY <1>10 DEF DeleteRedisJob
  <2>2. CASE UNCHANGED redis
    BY <1>2, <2>1, <2>2 DEF Requeueing
  <2>3. CASE redis.state \in {"waiting", "delayed"} /\ redis' = NoRedisJob
    <3>1. worker.pc = "idle" /\ redis'.state = "absent" /\ job.status # "paused"
      BY <2>1, <2>3 DEF NoRedisJob, OrderInv, QueueInv, PauseInv
    <3>2. \A s \in Submitters : subs[s] = "idle"
      BY <2>3 DEF OrderInv, AskInv
    <3>3. QED
      BY <1>1, <2>1, <3>1, <3>2
      DEF OrderInv, QueueInv, AskInv, PauseInv, StatusInv, Storing, Requeueing
  <2>4. QED
    BY <2>1, <2>2, <2>3
<1>11. CASE DeletePurge
  <2>1. /\ UNCHANGED <<batch, redis>> /\ ctl' = "deleteBatch" /\ job'.status = "none"
    BY <1>11 DEF DeletePurge
  <2>2. QED
    BY <1>1, <2>1
    DEF OrderInv, QueueInv, AskInv, PauseInv, StatusInv, GivenUp, Requeueing, isFinalAttempt
<1>12. QED
  BY <1>3, <1>4, <1>5, <1>7, <1>8, <1>9, <1>10, <1>11 DEF Control

LEMMA BullOrder ==
  ASSUME ListTyped, OrderInv, PickUp \/ Return \/ Throw \/ PromoteDelayed
  PROVE  OrderInv'
<1>0. IsRedis(redis) /\ IsWorker(worker) /\ UNCHANGED <<batch, job, subs, ctl, boot>>
  BY DEF ListTyped, SideTyped, CashTyped, PickUp, Return, Throw, PromoteDelayed
<1>1. CASE PickUp
  <2>1. /\ worker.pc = "idle" /\ redis.state = "waiting"
        /\ redis'.state = "active" /\ redis'.attempts = redis.attempts
        /\ worker'.pc = "start" /\ worker'.attempt = redis.attempts
    BY <1>0, <1>1 DEF PickUp, IsRedis, IdleWorker
  <2>2. /\ \A s \in Submitters : subs[s] = "idle"
        /\ batch.exists => batch.status \in {"Posting", "Posted"}
        /\ job.status = "paused" => ctl = "markQueued"
        /\ ctl # "requeueAdd"
    BY <2>1 DEF OrderInv, AskInv, StatusInv, PauseInv, GivenUp
  <2>3. QED
    BY <1>0, <2>1, <2>2
    DEF OrderInv, QueueInv, AskInv, PauseInv, StatusInv, Storing, Requeueing
<1>2. CASE Return
  <2>1. worker.pc = "return" /\ redis.state = "active"
    BY <1>2 DEF Return, OrderInv, QueueInv
  <2>2. redis'.state = "completed" /\ worker'.pc = "idle"
    BY <1>0, <1>2, <2>1 DEF Return, IsRedis, IdleWorker
  <2>3. /\ \A s \in Submitters : subs[s] = "idle"
        /\ batch.exists => batch.status \in {"Posting", "Posted"}
        /\ ctl # "requeueAdd"
    BY <2>1 DEF OrderInv, AskInv, StatusInv, PauseInv, GivenUp
  <2>4. QED
    BY <1>0, <2>1, <2>2, <2>3
    DEF OrderInv, QueueInv, AskInv, PauseInv, StatusInv, Storing, Requeueing
<1>3. CASE Throw
  <2>1. worker.pc = "throw" /\ redis.state = "active"
    BY <1>3 DEF Throw, OrderInv, QueueInv
  <2>2. /\ redis'.state = (IF redis.attempts + 1 < MaxAttempts THEN "delayed" ELSE "failed")
        /\ worker'.pc = "idle"
    BY <1>0, <1>3, <2>1 DEF Throw, IsRedis, IdleWorker
  <2>3. GivenUp => redis'.state = "failed"
    BY <1>0, <2>2, DurableQueueAssumption DEF GivenUp, IsRedis, DurableQueueAssumption
  <2>4. AskInv'
    BY <1>0, <2>1, <2>2, <2>3 DEF OrderInv, AskInv, Storing
  <2>5. /\ job.status = "paused" => ctl = "markQueued"
        /\ ctl # "requeueAdd"
    BY <2>1 DEF OrderInv, PauseInv
  <2>6. StatusInv'
    BY <1>0, <2>1, <2>2, <2>3 DEF OrderInv, StatusInv
  <2>7. QED
    BY <1>0, <2>1, <2>2, <2>4, <2>5, <2>6 DEF OrderInv, QueueInv, PauseInv, Requeueing
<1>4. CASE PromoteDelayed
  <2>1. /\ redis.state = "delayed" /\ redis'.state = "waiting" /\ UNCHANGED worker
        /\ worker.pc = "idle"
    BY <1>0, <1>4 DEF PromoteDelayed, IsRedis, OrderInv, QueueInv
  <2>2. /\ \A s \in Submitters : subs[s] = "idle"
        /\ batch.exists => batch.status \in {"Posting", "Posted"}
        /\ job.status = "paused" => ctl = "markQueued"
        /\ ctl # "requeueAdd"
    BY <2>1 DEF OrderInv, AskInv, StatusInv, PauseInv, GivenUp
  <2>3. QED
    BY <1>0, <2>1, <2>2
    DEF OrderInv, QueueInv, AskInv, PauseInv, StatusInv, Storing, Requeueing
<1>5. QED
  BY <1>1, <1>2, <1>3, <1>4

LEMMA OrderStep ==
  ASSUME ListTyped, CashNext, OneAtATime, spent'.crashes = 0, OrderInv
  PROVE  OrderInv'
<1>0. CashTyped /\ spent.crashes = 0
  BY SpentGrows DEF ListTyped
<1>1. ~Crash
  BY <1>0 DEF Crash, Spend, ListTyped, SideTyped, Spendings
<1>2. ~Boot /\ ~Stalled
  BY DEF OrderInv, QueueInv, Boot, ReleaseRead, ForceRemove, Restore, Stalled
<1>3. CASE Finance
  <2>1. UNCHANGED <<worker, batch, job, redis, subs, ctl, boot>>
    BY <1>0, <1>3, FinanceFrame
  <2>2. QED
    BY <2>1
    DEF OrderInv, QueueInv, AskInv, PauseInv, StatusInv, GivenUp, isFinalAttempt
<1>4. CASE Aside
  BY <1>2, <1>4, SubmitOrder, ControlOrder, BullOrder DEF Aside
<1>5. CASE Ends
  BY <1>1, <1>5, BullOrder DEF Ends
<1>6. QED
  BY <1>0, <1>3, <1>4, <1>5, RunsOrder, Kinds DEF Runs

-----------------------------------------------------------------------------
(* The journals that have lines.                                           *)

LEMMA LinesAre ==
  ASSUME NEW G, CashTyped, NEW g, NEW h \in LinesIn(G, fo, g)
  PROVE  h \in HeaderIds /\ h # NoHeader /\ fo[h].live /\ fo[h].group = g /\ h \in Own(g)
BY SeqFacts DEF LinesIn, NoHeader, Own, Live

(* Lines appear only in the journal at hand.                               *)
LEMMA NoNewLines ==
  ASSUME NEW G, CashTyped, NEW g \in Groups, UNCHANGED fo \/ Opens \/ Finance
  PROVE  LinesIn(G, fo', g) \subseteq LinesIn(G, fo, g)
<1>0. HeaderIds = 1..Len(fo) /\ HeaderIds' = 1..Len(fo')
  BY DEF HeaderIds
<1>1. CASE UNCHANGED fo
  BY <1>1
<1>2. CASE worker.at \in Groups /\ fo' = Append(fo, NewJournal(worker.at))
  <2>1. NewJournal(worker.at).lines = "none"
    BY DEF NewJournal
  <2>2. /\ 1..Len(fo') = (1..Len(fo)) \cup {Len(fo) + 1} /\ fo'[Len(fo) + 1].lines = "none"
        /\ \A h \in 1..Len(fo) : fo'[h] = fo[h]
    BY <1>0, <1>2, <2>1, NewNumber
  <2>3. QED
    BY <2>2 DEF LinesIn
<1>3. CASE Finance
  <2>1. PICK k \in HeaderIds : /\ ~fo'[k].live \/ fo'[k].lines = "none"
                               /\ \A h \in HeaderIds \ {k} : fo'[h] = fo[h]
    BY <1>3, FinanceFrame
  <2>2. HeaderIds' = HeaderIds
    BY <1>3, FinanceFrame
  <2>3. QED
    BY <1>0, <2>1, <2>2 DEF LinesIn
<1>4. CASE Opens
  BY <1>1, <1>2, <1>4, OpensTo
<1>5. QED
  BY <1>1, <1>3, <1>4

LEMMA NewLines ==
  ASSUME NEW G, CashTyped, OwnKey, Writes, NEW g \in Groups
  PROVE  /\ LinesIn(G, fo', g) \subseteq LinesIn(G, fo, g) \cup {worker.key}
         /\ g # worker.at => LinesIn(G, fo', g) \subseteq LinesIn(G, fo, g)
<1>0. HeaderIds = 1..Len(fo) /\ HeaderIds' = 1..Len(fo')
  BY DEF HeaderIds
<1>1. /\ worker.key \in HeaderIds /\ worker.pc = "lines" /\ HeaderIds' = HeaderIds
      /\ \A h \in HeaderIds \ {worker.key} : fo'[h] = fo[h]
      /\ fo'[worker.key].group = fo[worker.key].group
  BY WritesLines
<1>2. fo[worker.key].group = worker.at
  BY <1>1 DEF OwnKey
<1>3. QED
  BY <1>0, <1>1, <1>2 DEF LinesIn

(* Which groups are there changes only when they are replaced.             *)
LEMMA StaysGone ==
  ASSUME ListTyped, CashTyped, NEW g \in Groups,
         Ends \/ Leaves \/ Walks \/ Reads \/ Opens \/ Writes \/ Finance
  PROVE  Gone(g)' <=> Gone(g)
<1>1. CASE UNCHANGED groups
  BY <1>1 DEF Gone
<1>2. ASSUME NEW x \in {"active", "completed"}, worker.at \in Groups,
             SetGroup(worker.at, [groups[worker.at] EXCEPT !.status = x])
      PROVE  Gone(g)' <=> Gone(g)
  BY <1>2, StatusSet DEF Gone
<1>3. CASE Walks
  BY <1>1, <1>2, <1>3, WalksOn
<1>4. CASE RelinkHeader \/ SetCreatedHeader
  BY <1>4, RecordsKey, HeaderSet DEF Gone
<1>5. CASE Ends \/ Leaves \/ Reads \/ Writes \/ Finance
  BY <1>1, <1>5, EndsIdle, LeavesLoop, ReadsTo, WritesLines, FinanceFrame
<1>6. CASE FindHeader \/ VerifyHeader \/ CreateHeader \/ HeaderUnanswered \/ RecreateHeader
  BY <1>1, <1>6, FindsKey, VerifiesKey, CreatesKey, UnansweredKey, RecreatesKey
<1>7. QED
  BY <1>3, <1>4, <1>5, <1>6 DEF Opens

-----------------------------------------------------------------------------
(* The invariant of the lists, in the states that are calm.                *)
Listed(G) == GroupsInv(G) /\ KeyInv(G) /\ ListInv(G)

(* Finance only takes away.                                                *)
LEMMA FinanceListed ==
  ASSUME NEW G, ListTyped, Finance
  PROVE  (Listed(G) => Listed(G)') /\ (HeldInv(G) => HeldInv(G)')
<1>1. CashTyped /\ UNCHANGED <<groups, worker, batch>>
  BY FinanceFrame DEF ListTyped
<1>2. \A g \in Groups : LinesIn(G, fo', g) \subseteq LinesIn(G, fo, g)
  BY <1>1, NoNewLines
<1>3. ASSUME Listed(G) PROVE GroupsInv(G)' /\ ListInv(G)'
  BY <1>1, <1>2, <1>3
  DEF Listed, GroupsInv, ListInv, HeldBy, Gone, SnapDone, Ahead, Passed, Ended, Created, Unposted
<1>4. ASSUME Listed(G) PROVE KeyInv(G)'
  <2>1. worker.pc \in OfGroup => worker.at \in Groups
    BY DEF ListTyped, RunTyped
  <2>2. QED
    BY <1>1, <1>2, <1>4, <2>1
    DEF Listed, KeyInv, HeldBy, Gone, SnapDone, Created, OfGroup, InLoop, AtJournal
<1>5. HeldInv(G) => HeldInv(G)'
  BY <1>1, <1>2 DEF HeldInv, HeldBy, Gone, Ahead
<1>6. QED
  BY <1>3, <1>4, <1>5 DEF Listed

(* The end of a run, and what puts the processor out of its loop.          *)
LEMMA EndsListed ==
  ASSUME NEW G, ListTyped, Ends, Listed(G)
  PROVE  Listed(G)' /\ (HeldInv(G) => HeldInv(G)')
<1>1. /\ UNCHANGED <<fo, groups, batch>> /\ worker'.pc \in {"idle", "start"}
  BY EndsIdle DEF Ends, Quiet
<1>2. worker'.pc \notin Loop \cup {"settle", "clear", "posted", "stop"}
  BY <1>1 DEF Loop, OfGroup, InLoop, AtJournal
<1>3. KeyInv(G)'
  BY <1>1, <1>2 DEF KeyInv, Loop, OfGroup, InLoop, AtJournal
<1>4. GroupsInv(G)' /\ ListInv(G)'
  BY <1>1, <1>2 DEF Listed, GroupsInv, ListInv, HeldBy, Gone, Ended
<1>5. HeldInv(G) => HeldInv(G)'
  BY <1>1, <1>2 DEF HeldInv, HeldBy, Gone
<1>6. QED
  BY <1>3, <1>4, <1>5 DEF Listed

LEMMA LeavesListed ==
  ASSUME NEW G, ListTyped, Leaves, Listed(G)
  PROVE  Listed(G)' /\ (HeldInv(G) => HeldInv(G)')
<1>0. CashTyped /\ IsBatch(batch) /\ UNCHANGED <<fo, groups>>
  BY LeavesLoop DEF ListTyped, SideTyped, Leaves, Quiet
<1>1. PICK p \in OutOfLoop : Goto(p)
  BY LeavesLoop
<1>2. worker'.pc = p
  BY <1>0, <1>1, GotoKeeps
<1>3. p \notin Loop \cup {"settle", "stop"}
  BY DEF OutOfLoop, Loop, OfGroup, InLoop, AtJournal
<1>4. KeyInv(G)'
  BY <1>2, <1>3 DEF KeyInv, Loop, OfGroup, InLoop, AtJournal
<1>5. GroupsInv(G)' /\ (HeldInv(G) => HeldInv(G)')
  BY <1>0, <1>2, <1>3 DEF Listed, GroupsInv, HeldInv, HeldBy, Gone, Ended
<1>11. SUFFICES ListInv(G)'
  BY <1>4, <1>5 DEF Listed
<1> DEFINE AllEnded == \A g \in Groups : Ended(g)
           Covered == AllEnded /\ \A g \in Groups : LinesIn(G, fo, g) \subseteq batch'.dfoIds
<1>6. ASSUME /\ batch'.status = "Posted" => Covered
             /\ p \in {"clear", "posted"} => (batch'.exists => Covered) /\ AllEnded
      PROVE  ListInv(G)'
  BY <1>0, <1>2, <1>3, <1>6 DEF ListInv, Ended
<1> HIDE DEF Covered, AllEnded
<1>7. CASE CompleteBatch
  <2>1. /\ worker.pc = "settle" /\ Goto("clear")
        /\ batch' = IF batch.exists THEN [batch EXCEPT !.dfoIds = SnapshotHeaders \cup Created]
                    ELSE batch
    BY <1>7 DEF CompleteBatch, SetDfoIds
  <2>2. ASSUME NEW g \in Groups
        PROVE  Ended(g) /\ LinesIn(G, fo, g) \subseteq SnapshotHeaders \cup Created
    <3>1. CASE SnapDone(g)
      <4>1. HeldBy(G, g, worker.snap[g].header) /\ Ended(g)
        BY <2>1, <3>1 DEF Listed, GroupsInv
      <4>2. QED
        BY <1>0, <4>1, LinesAre DEF HeldBy, SnapshotHeaders
    <3>2. CASE ~SnapDone(g)
      BY <2>1, <3>2 DEF Listed, GroupsInv, ListInv
    <3>3. QED
      BY <3>1, <3>2
  <2>3. batch.exists => batch'.dfoIds = SnapshotHeaders \cup Created
    BY <1>0, <2>1 DEF IsBatch
  <2>4. batch'.exists = batch.exists /\ batch'.status = batch.status
    BY <1>0, <2>1 DEF IsBatch
  <2>5. ~batch.exists => batch' = batch
    BY <2>1
  <2>6. batch'.exists => Covered
    BY <2>2, <2>3, <2>4 DEF Covered, AllEnded
  <2>7. batch'.status = "Posted" => Covered
    BY <2>4, <2>5, <2>6 DEF Listed, ListInv, Covered, AllEnded
  <2>8. AllEnded
    BY <2>2 DEF AllEnded
  <2>9. QED
    BY <1>6, <2>6, <2>7, <2>8
<1>8. CASE ClearAttempted
  <2>1. worker.pc = "clear" /\ UNCHANGED batch
    BY <1>8 DEF ClearAttempted
  <2>2. /\ batch.status = "Posted" => Covered
        /\ (batch.exists => Covered) /\ AllEnded
    BY <2>1 DEF Listed, ListInv, Covered, AllEnded
  <2>3. QED
    BY <1>6, <2>1, <2>2
<1>9. CASE SetPosted
  <2>1. worker.pc = "posted" /\ SetBatchStatus("Posted") /\ Goto("finish")
    BY <1>9 DEF SetPosted
  <2>2. p = "finish"
    BY <1>0, <1>2, <2>1, GotoKeeps
  <2>3. \/ batch.exists /\ batch'.dfoIds = batch.dfoIds
        \/ UNCHANGED batch
    BY <1>0, <2>1 DEF SetBatchStatus, IsBatch
  <2>4. batch'.status = "Posted" => Covered
    BY <2>1, <2>3 DEF Listed, ListInv, Covered, AllEnded
  <2>5. QED
    BY <1>6, <2>2, <2>4
<1>10. CASE \/ QueryRejected \/ HeaderRejected \/ StoreFault
            \/ MarkActive \/ RecordWorkerStopped \/ MarkCompleted \/ FailJob
            \/ CancelBatch \/ StoreAttemptedIds
  <2>1. \/ UNCHANGED batch \/ SetBatchStatus("Canceled")
    BY <1>10 DEF QueryRejected, HeaderRejected, StoreFault, MarkActive,
       RecordWorkerStopped, MarkCompleted, FailJob, CancelBatch, StoreAttemptedIds
  <2>2. \E q : Goto(q) /\ q \notin {"clear", "posted"}
    BY <1>10 DEF QueryRejected, HeaderRejected, StoreFault, MarkActive,
       RecordWorkerStopped, MarkCompleted, FailJob, CancelBatch, StoreAttemptedIds
  <2>3. p \notin {"clear", "posted"}
    BY <1>0, <1>2, <2>2, GotoKeeps
  <2>4. batch'.status = "Posted" => UNCHANGED batch
    BY <1>0, <2>1 DEF SetBatchStatus, IsBatch
  <2>5. batch'.status = "Posted" => Covered
    BY <2>4 DEF Listed, ListInv, Covered, AllEnded
  <2>6. QED
    BY <1>6, <2>3, <2>5
<1>12. QED
  BY <1>7, <1>8, <1>9, <1>10 DEF Leaves

(* In calm states a request that replaces the groups finds no run at them, *)
(* and no request posts a batch by itself.                                 *)
LEMMA ReplaceAlone ==
  ASSUME Calm, RequestInv, Alone => OrderInv, NEW s \in Submitters
  PROVE  /\ subs[s] \in {"deleteGroups", "insertGroups"} =>
              worker.pc = "idle" /\ batch.status # "Posted"
         /\ subs[s] # "markPosted"
         /\ spent.submits <= 1 /\ subs[s] \in {"deleteGroups", "insertGroups"} => fo = <<>>
<1>1. CASE spent.submits <= 1
  BY <1>1 DEF RequestInv, Fresh, Untouched, Preparing
<1>2. CASE ~(spent.submits <= 1)
  <2>1. OrderInv
    BY <1>2 DEF Calm
  <2>2. subs[s] \in {"deleteGroups", "insertGroups"} => redis.state = "absent"
    BY <2>1 DEF OrderInv, AskInv, Storing
  <2>3. QED
    BY <1>2, <2>1, <2>2 DEF OrderInv, AskInv, QueueInv
<1>3. QED
  BY <1>1, <1>2

LEMMA AsideFrame ==
  ASSUME ListTyped, Calm, RequestInv, Alone => OrderInv, Aside
  PROVE  /\ UNCHANGED <<fo, worker>>
         /\ batch'.dfoIds = batch.dfoIds /\ (batch'.exists => batch.exists)
         /\ batch'.status = "Posted" => batch.status = "Posted"
         /\ \/ UNCHANGED groups
            \/ groups' = NoGroups
            \/ /\ groups' = [g \in Groups |-> Pending]
               /\ worker.pc = "idle" /\ batch.status # "Posted"
               /\ spent.submits <= 1 => fo = <<>>
<1>1. IsBatch(batch) /\ UNCHANGED <<fo, worker>>
  BY DEF ListTyped, SideTyped, Aside, Quiet
<1>2. CASE \E s \in Submitters : Submit(s)
  <2>1. PICK s \in Submitters : Submit(s)
    BY <1>2
  <2>2. \/ UNCHANGED groups \/ groups' = NoGroups
        \/ groups' = [g \in Groups |-> Pending] /\ subs[s] = "insertGroups"
    BY <2>1 DEF Submit, SubmitValidate, SubmitPrepare, SubmitLookup,
         SubmitMarkPosted, SubmitRemoveFailed, SubmitStorePrepare,
         ReplaceDeleteGroups, ReplaceInsertGroups, ReplaceUpsertJob,
         SubmitAdd
  <2>3. UNCHANGED batch \/ SetBatchStatus("Posting")
    BY <2>1, ReplaceAlone DEF Submit, SubmitValidate, SubmitPrepare,
         SubmitLookup, SubmitMarkPosted, SubmitRemoveFailed,
         SubmitStorePrepare, ReplaceDeleteGroups, ReplaceInsertGroups,
         ReplaceUpsertJob, SubmitAdd
  <2>4. /\ batch'.dfoIds = batch.dfoIds /\ (batch'.exists => batch.exists)
        /\ batch'.status = "Posted" => batch.status = "Posted"
    BY <1>1, <2>3 DEF SetBatchStatus, IsBatch
  <2>5. QED
    BY <1>1, <2>2, <2>4, ReplaceAlone
<1>3. CASE Control
  <2>1. UNCHANGED groups \/ groups' = NoGroups
    BY <1>3 DEF Control, PauseRead, PauseSet, ResumeRead, ResumeClear,
         ResumeFindJob, RequeueCheck, RequeueAdd, MarkQueued, DeleteRead,
         DeletePause, DeleteRedisJob, DeletePurge, DeleteBatch
  <2>2. \/ UNCHANGED batch \/ SetBatchPaused(TRUE) \/ SetBatchPaused(FALSE)
        \/ batch' = [batch EXCEPT !.exists = FALSE]
    BY <1>3 DEF Control, PauseRead, PauseSet, ResumeRead, ResumeClear,
         ResumeFindJob, RequeueCheck, RequeueAdd, MarkQueued, DeleteRead,
         DeletePause, DeleteRedisJob, DeletePurge, DeleteBatch
  <2>3. /\ batch'.dfoIds = batch.dfoIds /\ (batch'.exists => batch.exists)
        /\ batch'.status = "Posted" => batch.status = "Posted"
    BY <1>1, <2>2 DEF SetBatchPaused, IsBatch
  <2>4. QED
    BY <1>1, <2>1, <2>3
<1>4. CASE PromoteDelayed \/ Stalled \/ Boot
  BY <1>1, <1>4 DEF PromoteDelayed, Stalled, Boot, ReleaseRead,
       ForceRemove, Restore
<1>5. QED
  BY <1>2, <1>3, <1>4 DEF Aside

LEMMA AsideListed ==
  ASSUME NEW G, ListTyped, Calm, RequestInv, Alone => OrderInv, Aside, Listed(G)
  PROVE  Listed(G)' /\ (spent.submits <= 1 /\ HeldInv(G) => HeldInv(G)')
<1>1. /\ UNCHANGED <<fo, worker>>
      /\ batch'.dfoIds = batch.dfoIds /\ (batch'.exists => batch.exists)
      /\ batch'.status = "Posted" => batch.status = "Posted"
      /\ \/ UNCHANGED groups
         \/ groups' = NoGroups
         \/ /\ groups' = [g \in Groups |-> Pending]
            /\ worker.pc = "idle" /\ batch.status # "Posted"
            /\ spent.submits <= 1 => fo = <<>>
  BY AsideFrame
<1>2. Created' = Created /\ Unposted' = Unposted
  BY <1>1 DEF Created, Unposted
<1>3. worker.pc \in OfGroup => worker.at \in Groups
  BY DEF ListTyped, RunTyped
<1>4. CASE UNCHANGED groups
  <2>1. GroupsInv(G)' /\ (HeldInv(G) => HeldInv(G)')
    BY <1>1, <1>4
    DEF Listed, GroupsInv, HeldInv, HeldBy, Gone, SnapDone, Ahead, Passed, Ended
  <2>2. KeyInv(G)'
    BY <1>1, <1>2, <1>3, <1>4 DEF Listed, KeyInv, HeldBy, Gone, SnapDone
  <2>3. ListInv(G)'
    BY <1>1, <1>2, <1>4 DEF Listed, ListInv, SnapDone, Passed, Ended
  <2>4. QED
    BY <2>1, <2>2, <2>3 DEF Listed
<1>5. CASE groups' = NoGroups
  <2>1. \A g \in Groups : groups'[g].status = "absent"
    BY <1>5 DEF NoGroups, Absent
  <2>2. GroupsInv(G)' /\ (HeldInv(G) => HeldInv(G)')
    BY <1>1, <1>5, <2>1
    DEF Listed, GroupsInv, HeldInv, HeldBy, Gone, SnapDone, Ahead, Passed, Ended
  <2>3. KeyInv(G)'
    BY <1>1, <1>2, <1>3, <2>1
    DEF Listed, KeyInv, HeldBy, Gone, SnapDone, OfGroup, InLoop, AtJournal
  <2>4. ListInv(G)'
    BY <1>1, <1>2, <2>1 DEF Listed, ListInv, SnapDone, Passed, Ended
  <2>5. QED
    BY <2>2, <2>3, <2>4 DEF Listed
<1>6. CASE /\ groups' = [g \in Groups |-> Pending]
           /\ worker.pc = "idle" /\ batch.status # "Posted"
           /\ spent.submits <= 1 => fo = <<>>
  <2>1. \A g \in Groups : groups'[g].status = "pending"
    BY <1>6 DEF Pending
  <2>2. worker'.pc \notin Loop \cup {"settle", "clear", "posted", "stop"}
    BY <1>1, <1>6 DEF Loop, OfGroup, InLoop, AtJournal
  <2>3. KeyInv(G)'
    BY <2>2 DEF KeyInv, Loop, OfGroup, InLoop, AtJournal
  <2>4. GroupsInv(G)' /\ ListInv(G)'
    BY <1>1, <1>6, <2>1, <2>2 DEF GroupsInv, ListInv, Gone
  <2>5. ASSUME spent.submits <= 1 PROVE HeldInv(G)'
    <3>1. fo' = <<>>
      BY <1>1, <1>6, <2>5
    <3>2. \A g \in Groups : LinesIn(G, fo', g) = {}
      BY <3>1 DEF LinesIn
    <3>3. QED
      BY <2>2, <3>2 DEF HeldInv, HeldBy
  <2>6. QED
    BY <2>3, <2>4, <2>5 DEF Listed
<1>7. QED
  BY <1>1, <1>4, <1>5, <1>6

(* The steps at a group that leave the journals alone.                     *)
LEMMA WalksListed ==
  ASSUME NEW G, ListTyped, Walks, Listed(G)
  PROVE  Listed(G)' /\ (HeldInv(G) => HeldInv(G)')
<1>0. CashTyped /\ UNCHANGED <<fo, batch>>
  BY WalksOn DEF ListTyped, Walks, Quiet
<1>1. /\ worker.pc \in Loop /\ worker.at \in Groups /\ UNCHANGED batch
      /\ \/ worker.pc = "markGroup" /\ Goto("open")
            /\ SetGroup(worker.at, [groups[worker.at] EXCEPT !.status = "active"])
         \/ /\ worker.pc = "complete" /\ (Goto("count") \/ Goto("check"))
            /\ SetGroup(worker.at, [groups[worker.at] EXCEPT !.status = "completed"])
         \/ worker.pc = "count" /\ Goto("check") /\ UNCHANGED groups
  BY WalksOn
<1>2. /\ worker'.at = worker.at /\ worker'.snap = worker.snap /\ worker'.key = worker.key
      /\ worker'.created = worker.created
      /\ \/ worker.pc = "markGroup" /\ worker'.pc = "open"
         \/ worker.pc = "complete" /\ worker'.pc \in {"count", "check"}
         \/ worker.pc = "count" /\ worker'.pc = "check"
  BY <1>0, <1>1, GotoKeeps
<1>3. /\ \A g \in Groups \ {worker.at} : groups'[g] = groups[g]
      /\ \A g \in Groups : /\ groups'[g].header = groups[g].header
                           /\ groups'[g].status = "absent" <=> groups[g].status = "absent"
      /\ worker.pc = "markGroup" => groups'[worker.at].status \in {"active", "absent"}
      /\ worker.pc = "complete" => groups'[worker.at].status \in {"completed", "absent"}
      /\ worker.pc = "count" => UNCHANGED groups
  BY <1>0, <1>1, StatusSet
<1>4. Created' = Created
  BY <1>2 DEF Created
<1>5. worker.pc \in OfGroup
  BY <1>2 DEF OfGroup, InLoop
<1>6. ~SnapDone(worker.at)
  BY <1>5 DEF Listed, KeyInv
<1>7. worker.pc = "complete" => /\ LinesIn(G, fo, worker.at) \subseteq {worker.key}
                                /\ worker.key \in Created
                                /\ ~Gone(worker.at) => groups[worker.at].header = worker.key
  BY DEF Listed, KeyInv, HeldBy
<1>8. batch.status # "Posted"
  BY <1>1, <1>2 DEF Listed, ListInv
<1>9. KeyInv(G)'
  BY <1>2, <1>6 DEF KeyInv, SnapDone, OfGroup, InLoop, AtJournal
<1>10. HeldInv(G) => HeldInv(G)'
  BY <1>0, <1>1, <1>2, <1>3 DEF HeldInv, HeldBy, Gone, Ahead
<1>11. ListInv(G)'
  <2>1. worker'.pc \in Loop /\ worker'.pc \notin {"settle", "clear", "posted"}
    BY <1>2 DEF Loop, OfGroup, InLoop
  <2>2. ASSUME NEW g \in Groups, Passed(g)', ~SnapDone(g)'
        PROVE  LinesIn(G, fo', g) \subseteq Created'
    <3>1. CASE g = worker.at
      BY <1>0, <1>1, <1>2, <1>4, <1>7, <2>2, <3>1 DEF Listed, ListInv, Passed, SnapDone
    <3>2. CASE g # worker.at
      BY <1>0, <1>1, <1>2, <1>4, <2>2, <3>2 DEF Listed, ListInv, Passed, SnapDone
    <3>3. QED
      BY <3>1, <3>2
  <2>3. batch'.status # "Posted"
    BY <1>1, <1>8
  <2>4. QED
    BY <2>1, <2>2, <2>3 DEF ListInv
<1>12. GroupsInv(G)'
  <2>1. groups' = NoGroups \/ \A g \in Groups : ~Gone(g)'
    <3>1. CASE groups = NoGroups
      <4>1. groups[worker.at].status = "absent"
        BY <1>1, <3>1 DEF NoGroups, Absent
      <4>2. QED
        BY <1>1, <3>1, <4>1 DEF SetGroup
    <3>2. QED
      BY <1>3, <3>1 DEF Listed, GroupsInv, Gone
  <2>2. ASSUME NEW g \in Groups, groups'[g].status = "completed"
        PROVE  LinesIn(G, fo', g) \subseteq {groups'[g].header}
    <3>1. CASE g = worker.at /\ worker.pc # "count"
      <4>1. worker.pc = "complete" /\ ~Gone(worker.at)
        BY <1>2, <1>3, <2>2, <3>1 DEF Gone
      <4>2. QED
        BY <1>0, <1>3, <1>7, <3>1, <4>1
    <3>2. CASE g # worker.at \/ worker.pc = "count"
      BY <1>0, <1>3, <2>2, <3>2 DEF Listed, GroupsInv, HeldBy
    <3>3. QED
      BY <3>1, <3>2
  <2>3. ASSUME NEW g \in Groups, Ahead(g)', ~Gone(g)'
        PROVE  groups'[g].header = worker'.snap[g].header
    BY <1>1, <1>2, <1>3, <2>3 DEF Listed, GroupsInv, Ahead, Gone
  <2>4. ASSUME NEW g \in Groups
        PROVE  /\ SnapDone(g)' => LinesIn(G, fo', g) \subseteq {worker'.snap[g].header}
               /\ SnapDone(g)' \/ Passed(g)' => Ended(g)'
    <3>1. CASE g = worker.at
      <4>1. ~SnapDone(g)' /\ ~(g < worker.at)
        BY <1>0, <1>2, <1>6, <3>1, SeqFacts DEF SnapDone
      <4>2. Passed(g)' => worker.pc \in {"complete", "count"}
        BY <1>2, <4>1 DEF Passed
      <4>3. worker.pc = "count" => Ended(g)
        BY <1>1, <3>1 DEF Listed, GroupsInv, Passed
      <4>4. QED
        BY <1>3, <3>1, <4>1, <4>2, <4>3 DEF Ended
    <3>2. CASE g # worker.at
      BY <1>0, <1>1, <1>2, <1>3, <3>2 DEF Listed, GroupsInv, Passed, SnapDone, Ended, HeldBy
    <3>3. QED
      BY <3>1, <3>2
  <2>5. QED
    BY <2>1, <2>2, <2>3, <2>4 DEF GroupsInv, HeldBy
<1>13. QED
  BY <1>9, <1>10, <1>11, <1>12 DEF Listed

LEMMA ListListed ==
  ASSUME NEW G, ListTyped, ListGroups, Reads, Listed(G)
  PROVE  Listed(G)' /\ (HeldInv(G) => HeldInv(G)')
<1>0. /\ CashTyped /\ UNCHANGED <<fo, groups, batch>> /\ worker.pc = "list"
      /\ worker.at = 0 /\ Groups = 1..N /\ N \in Nat
  BY ReadsTo, SeqFacts DEF ListTyped, RunTyped, Reads, Quiet, ListGroups
<1>1. /\ worker'.snap = groups /\ worker'.at = 0 /\ worker'.pc \in {"fail", "check"}
      /\ worker'.pc = "check" => groups # NoGroups
  BY <1>0, ReadsTo
<1>2. KeyInv(G)'
  BY <1>1 DEF KeyInv, OfGroup, InLoop, AtJournal
<1>3. /\ groups = NoGroups \/ \A g \in Groups : ~Gone(g)
      /\ \A g \in Groups : groups[g].status = "completed" => HeldBy(G, g, groups[g].header)
  BY DEF Listed, GroupsInv
<1>4. CASE worker'.pc = "fail"
  <2>1. worker'.pc \notin Loop \cup {"settle", "clear", "posted", "stop"}
    BY <1>4 DEF Loop, OfGroup, InLoop, AtJournal
  <2>2. GroupsInv(G)' /\ ListInv(G)' /\ (HeldInv(G) => HeldInv(G)')
    BY <1>0, <2>1 DEF Listed, GroupsInv, ListInv, HeldInv, HeldBy, Gone, Ended
  <2>3. QED
    BY <1>2, <2>2 DEF Listed
<1>5. CASE worker'.pc = "check"
  <2>1. \A g \in Groups : ~Gone(g)
    BY <1>1, <1>3, <1>5
  <2>2. \A g \in Groups : ~Passed(g)'
    BY <1>0, <1>1 DEF Passed
  <2>3. GroupsInv(G)'
    BY <1>0, <1>1, <1>3, <2>1, <2>2
    DEF GroupsInv, HeldBy, Gone, SnapDone, Ahead, Ended
  <2>4. HeldInv(G) => HeldInv(G)'
    BY <1>0, <1>1, <1>5, <2>1 DEF HeldInv, HeldBy, Gone
  <2>5. ListInv(G)'
    <3>1. ASSUME batch'.status = "Posted"
          PROVE  /\ \A g \in Groups : LinesIn(G, fo', g) \subseteq batch'.dfoIds
                 /\ \A g \in Groups : Ended(g)'
                 /\ Unposted' = {}
      <4>1. /\ \A g \in Groups : LinesIn(G, fo, g) \subseteq batch.dfoIds
            /\ \A g \in Groups : Ended(g)
        BY <1>0, <3>1 DEF Listed, ListInv
      <4>2. \A g \in Groups : groups[g].status = "completed"
        BY <2>1, <4>1 DEF Ended, Gone
      <4>3. QED
        BY <1>0, <1>1, <4>1, <4>2 DEF Ended, Unposted
    <3>2. QED
      BY <1>5, <2>2, <3>1 DEF ListInv
  <2>6. QED
    BY <1>2, <2>3, <2>4, <2>5 DEF Listed
<1>6. QED
  BY <1>1, <1>4, <1>5

LEMMA CheckListed ==
  ASSUME NEW G, ListTyped, CheckPause, Reads, Listed(G)
  PROVE  Listed(G)' /\ (HeldInv(G) => HeldInv(G)')
<1>0. /\ CashTyped /\ UNCHANGED <<fo, groups, batch>> /\ worker.pc = "check"
      /\ worker.at \in 0..N /\ Groups = 1..N /\ N \in Nat /\ worker.pc \in Loop
  BY ReadsTo, SeqFacts DEF ListTyped, CashTyped, Reads, Quiet, CheckPause, Loop
<1>1. /\ worker'.snap = worker.snap /\ worker'.created = worker.created
      /\ \/ worker'.at = worker.at /\ worker'.pc = "settle" /\ Unposted = {}
         \/ worker'.at = worker.at /\ worker'.pc = "stop" /\ Unposted # {}
         \/ /\ worker'.at \in Unposted /\ \A k \in Unposted : worker'.at <= k
            /\ worker'.pc = "markGroup" /\ batch.exists
  BY <1>0, ReadsTo
<1>2. Created' = Created /\ \A g \in Groups : SnapDone(g)' <=> SnapDone(g)
  BY <1>1 DEF Created, SnapDone
<1>3. batch.status = "Posted" => Unposted = {}
  BY <1>0 DEF Listed, ListInv
<1>4. \A g \in Groups : g <= worker.at <=> Passed(g)
  BY <1>0 DEF Passed
<1>5. \A g \in Groups : g > worker.at <=> Ahead(g)
  BY <1>0 DEF Ahead
<1>6. \A g \in Groups : g > worker.at /\ g \notin Unposted => SnapDone(g)
  BY DEF Unposted, SnapDone
<1>7. CASE worker'.pc = "stop"
  <2>1. worker'.pc \notin Loop \cup {"settle", "clear", "posted"}
    BY <1>7 DEF Loop, OfGroup, InLoop, AtJournal
  <2>2. KeyInv(G)'
    BY <2>1 DEF KeyInv, Loop, OfGroup, InLoop, AtJournal
  <2>3. batch'.status # "Posted"
    BY <1>0, <1>1, <1>3, <1>7
  <2>4. GroupsInv(G)' /\ ListInv(G)' /\ (HeldInv(G) => HeldInv(G)')
    BY <1>0, <2>1, <2>3 DEF Listed, GroupsInv, ListInv, HeldInv, HeldBy, Gone
  <2>5. QED
    BY <2>2, <2>4 DEF Listed
<1>8. CASE worker'.pc = "settle"
  <2>1. worker'.pc \notin Loop \cup {"clear", "posted", "stop"}
    BY <1>8 DEF Loop, OfGroup, InLoop, AtJournal
  <2>2. KeyInv(G)' /\ (HeldInv(G) => HeldInv(G)')
    BY <1>0, <2>1 DEF KeyInv, HeldInv, HeldBy, Gone, Loop, OfGroup, InLoop, AtJournal
  <2>3. worker'.at = worker.at /\ Unposted = {}
    BY <1>1, <1>8
  <2>4. \A g \in Groups : Passed(g)' <=> Passed(g)
    BY <1>0, <1>8, <2>3 DEF Passed
  <2>5. \A g \in Groups : SnapDone(g) \/ Passed(g)
    BY <1>0, <1>4, <1>6, <2>3
  <2>6. GroupsInv(G)'
    BY <1>0, <1>1, <1>2, <2>1, <2>4 DEF Listed, GroupsInv, HeldBy, Gone, Ended
  <2>7. ListInv(G)'
    BY <1>0, <1>2, <1>8, <2>1, <2>4, <2>5 DEF Listed, ListInv, Ended
  <2>8. QED
    BY <2>2, <2>6, <2>7 DEF Listed
<1>9. CASE worker'.pc = "markGroup"
  <2>1. /\ worker'.at \in Unposted /\ \A k \in Unposted : worker'.at <= k
        /\ worker'.at \in Groups /\ worker'.at > worker.at /\ ~SnapDone(worker'.at)
    BY <1>1, <1>9 DEF Unposted, SnapDone
  <2>2. batch.status # "Posted"
    BY <1>3, <2>1
  <2>3. KeyInv(G)'
    BY <1>1, <1>9, <2>1 DEF KeyInv, SnapDone
  <2>4. \A g \in Groups : Ahead(g)' => Ahead(g)
    BY <1>0, <1>5, <2>1 DEF Ahead
  <2>5. \A g \in Groups : Passed(g)' => Passed(g) \/ SnapDone(g)
    <3> SUFFICES ASSUME NEW g \in Groups, Passed(g)' PROVE Passed(g) \/ SnapDone(g)
      OBVIOUS
    <3>1. g < worker'.at
      BY <1>9 DEF Passed
    <3>2. g \notin Unposted
      BY <1>0, <2>1, <3>1
    <3>3. QED
      BY <1>0, <1>4, <1>6, <3>2
  <2>6. worker'.pc \in Loop
    BY <1>9 DEF Loop, OfGroup, InLoop
  <2>7. GroupsInv(G)'
    BY <1>0, <1>1, <1>2, <2>4, <2>5 DEF Listed, GroupsInv, HeldBy, Gone, Ended
  <2>8. ListInv(G)'
    BY <1>0, <1>2, <1>9, <2>2, <2>5 DEF Listed, ListInv
  <2>9. HeldInv(G) => HeldInv(G)'
    BY <1>0, <1>1, <2>4 DEF HeldInv, HeldBy, Gone
  <2>10. QED
    BY <2>3, <2>7, <2>8, <2>9 DEF Listed
<1>10. QED
  BY <1>1, <1>7, <1>8, <1>9

(* What is left to say of a step that looks for, or opens, the journal of  *)
(* its group: the number it records is of the journal that has the lines,  *)
(* and no journal that has lines drops out of those of the run.            *)
LEMMA OpensFrame ==
  ASSUME NEW G, ListTyped, Opens, Listed(G), KeyInv(G)',
         \/ UNCHANGED groups
         \/ /\ SetGroup(worker.at, [groups[worker.at] EXCEPT !.header = worker.key])
            /\ worker.key \in HeaderIds /\ LinesIn(G, fo, worker.at) \subseteq {worker.key},
         \A g \in Groups : LinesIn(G, fo, g) \cap Created \subseteq Created'
  PROVE  Listed(G)' /\ (HeldInv(G) => HeldInv(G)')
<1>0. /\ CashTyped /\ Groups = 1..N /\ N \in Nat /\ UNCHANGED batch
      /\ worker.pc \in {"open"} \cup AtJournal /\ worker.at \in Groups
      /\ worker'.at = worker.at /\ worker'.snap = worker.snap
      /\ worker'.pc \in AtJournal \cup {"complete", "caught"}
  BY OpensTo, SeqFacts DEF ListTyped
<1>1. /\ worker.pc \in Loop /\ worker.pc \notin {"check", "count", "settle"}
      /\ worker'.pc \notin {"check", "count", "settle", "markGroup", "open", "clear",
                            "posted", "stop"}
  BY <1>0 DEF Loop, OfGroup, InLoop, AtJournal
<1>2. \A g \in Groups : LinesIn(G, fo', g) \subseteq LinesIn(G, fo, g)
  BY <1>0, NoNewLines
<1>3. /\ \A g \in Groups : groups'[g].status = groups[g].status
      /\ \A g \in Groups \ {worker.at} : groups'[g] = groups[g]
      /\ groups = NoGroups => UNCHANGED groups
      /\ \/ groups'[worker.at] = groups[worker.at]
         \/ LinesIn(G, fo, worker.at) \subseteq {groups'[worker.at].header}
  <2>1. CASE UNCHANGED groups
    BY <2>1
  <2>2. CASE /\ SetGroup(worker.at, [groups[worker.at] EXCEPT !.header = worker.key])
             /\ worker.key \in HeaderIds /\ LinesIn(G, fo, worker.at) \subseteq {worker.key}
    <3>1. groups = NoGroups => UNCHANGED groups
      BY <1>0, <2>2 DEF SetGroup, NoGroups, Absent
    <3>2. groups[worker.at].status = "absent" => UNCHANGED groups
      BY <2>2 DEF SetGroup
    <3>3. QED
      BY <1>0, <2>2, <3>1, <3>2, HeaderSet
  <2>3. QED
    BY <2>1, <2>2
<1>4. ASSUME NEW g \in Groups
      PROVE  (Ahead(g)' => Ahead(g) /\ g # worker.at) /\ (Passed(g)' => Passed(g))
  BY <1>0, <1>1 DEF Ahead, Passed
<1>5. batch.status # "Posted"
  BY <1>1 DEF Listed, ListInv
<1>6. GroupsInv(G)'
  <2>1. groups' = NoGroups \/ \A g \in Groups : ~Gone(g)'
    BY <1>3 DEF Listed, GroupsInv, Gone
  <2>2. ASSUME NEW g \in Groups, groups'[g].status = "completed"
        PROVE  LinesIn(G, fo', g) \subseteq {groups'[g].header}
    <3>1. LinesIn(G, fo, g) \subseteq {groups[g].header}
      BY <1>3, <2>2 DEF Listed, GroupsInv, HeldBy
    <3>2. QED
      BY <1>2, <1>3, <3>1
  <2>3. ASSUME NEW g \in Groups, Ahead(g)', ~Gone(g)'
        PROVE  groups'[g].header = worker'.snap[g].header
    <3>1. Ahead(g) /\ g # worker.at /\ ~Gone(g)
      BY <1>3, <1>4, <2>3 DEF Gone
    <3>2. QED
      BY <1>0, <1>1, <1>3, <3>1 DEF Listed, GroupsInv
  <2>4. ASSUME NEW g \in Groups
        PROVE  /\ SnapDone(g)' => LinesIn(G, fo', g) \subseteq {worker'.snap[g].header}
               /\ SnapDone(g)' \/ Passed(g)' => Ended(g)'
    BY <1>0, <1>1, <1>2, <1>3, <1>4 DEF Listed, GroupsInv, SnapDone, Ended, HeldBy
  <2>5. QED
    BY <2>1, <2>2, <2>3, <2>4 DEF GroupsInv, HeldBy
<1>7. ListInv(G)'
  <2>1. ASSUME NEW g \in Groups, Passed(g)', ~SnapDone(g)'
        PROVE  LinesIn(G, fo', g) \subseteq Created'
    <3>1. LinesIn(G, fo, g) \subseteq Created
      BY <1>0, <1>1, <1>4, <2>1 DEF Listed, ListInv, SnapDone
    <3>2. QED
      BY <1>2, <3>1
  <2>2. QED
    BY <1>0, <1>1, <1>5, <2>1 DEF ListInv
<1>8. HeldInv(G) => HeldInv(G)'
  <2>1. ASSUME HeldInv(G), NEW g \in Groups, ~Gone(g)'
        PROVE  LinesIn(G, fo', g) \subseteq {groups'[g].header}
    <3>1. LinesIn(G, fo, g) \subseteq {groups[g].header}
      BY <1>3, <2>1 DEF HeldInv, HeldBy, Gone
    <3>2. QED
      BY <1>2, <1>3, <3>1
  <2>2. QED
    BY <1>0, <1>1, <1>2, <1>4, <2>1 DEF HeldInv, HeldBy
<1>9. QED
  BY <1>6, <1>7, <1>8 DEF Listed

(* The look-up finds the journal of its group, and no other.               *)
Recognised == Prefixes = {} /\ outside.lost = 0 /\ OneInv

LEMMA FindListed ==
  ASSUME NEW G, ListTyped, FindHeader, Listed(G),
         HeldInv(G) \/ (Recognised /\ G \subseteq LedgerGroups)
  PROVE  Listed(G)' /\ (HeldInv(G) => HeldInv(G)')
<1>0. CashTyped /\ Opens
  BY DEF ListTyped, Opens
<1> DEFINE at == worker.at
           recorded == worker.snap[worker.at].header
<1>1. /\ worker.pc = "open" /\ worker.at \in Groups
      /\ UNCHANGED <<fo, groups, batch, outside>>
      /\ worker'.at = worker.at /\ worker'.snap = worker.snap
      /\ worker'.created = worker.created
      /\ \/ /\ Cardinality(MarkerHeaders(at)) = 1
            /\ worker'.key \in MarkerHeaders(at)
            /\ \/ worker'.pc = "verify" /\ worker'.key = recorded
               \/ worker'.pc = "relink"
         \/ /\ Cardinality(MarkerHeaders(at)) # 1
            /\ worker'.key = recorded
            /\ \/ worker'.pc = "create" /\ worker'.key = NoHeader
               \/ worker'.pc = "verify"
  BY <1>0, FindsKey
<1>2. Ahead(at) /\ worker.pc \in Loop /\ worker.pc \in OfGroup
  BY <1>1 DEF Ahead, Loop, OfGroup, InLoop
<1>3. ~Gone(at) => groups[at].header = recorded
  BY <1>1, <1>2 DEF Listed, GroupsInv
<1>4. at \in LedgerGroups => LinesIn(G, fo, at) \subseteq MarkerHeaders(at)
  BY <1>0, LinesAre DEF MarkerHeaders, MarkedHeaders
<1>13. IsFiniteSet(MarkerHeaders(at))
  BY <1>0, MarkersFinite
<1>14. Cardinality(MarkerHeaders(at)) = 1 => at \in LedgerGroups
  BY FS_EmptySet DEF MarkerHeaders
<1>5. LinesIn(G, fo, at) \subseteq {worker'.key}
  <2>1. CASE Cardinality(MarkerHeaders(at)) = 1
    <3>1. PICK x : MarkerHeaders(at) = {x}
      BY <1>13, <2>1, FS_Singleton
    <3>2. QED
      BY <1>1, <1>4, <1>14, <2>1, <3>1
  <2>2. CASE Cardinality(MarkerHeaders(at)) # 1 /\ HeldInv(G)
    BY <1>1, <1>2, <2>2 DEF HeldInv, HeldBy
  <2>5. CASE G \subseteq LedgerGroups /\ at \notin LedgerGroups
    BY <2>5 DEF LinesIn
  <2>3. CASE /\ Cardinality(MarkerHeaders(at)) # 1
             /\ Recognised /\ at \in LedgerGroups
    <3>1. MarkerHeaders(at) = Own(at)
      BY <2>3, MarkersAreOwn DEF Recognised
    <3>2. \A h, k \in Own(at) : h = k
      BY <2>3 DEF Recognised, OneInv, UniqueJournal
    <3>3. ASSUME NEW x \in Own(at) PROVE FALSE
      <4>1. MarkerHeaders(at) = {x}
        BY <3>1, <3>2, <3>3
      <4>2. QED
        BY <2>3, <4>1, FS_Singleton
    <3>4. QED
      BY <1>4, <2>3, <3>1, <3>3
  <2>4. QED
    BY <2>1, <2>2, <2>3, <2>5
<1>6. worker'.pc = "create" => LinesIn(G, fo, at) = {}
  BY <1>0, <1>1, <1>5, LinesAre
<1>7. ~SnapDone(at)
  BY <1>1, <1>2 DEF Listed, KeyInv
<1>8. worker'.pc = "verify" /\ ~Gone(at) => groups[at].header = worker'.key
  BY <1>1, <1>3
<1>9. worker'.pc \in {"verify", "relink", "create"}
  BY <1>1
<1> HIDE DEF recorded
<1>10. KeyInv(G)'
  BY <1>1, <1>5, <1>6, <1>7, <1>8, <1>9 DEF KeyInv, SnapDone, Gone, HeldBy
<1>11. Created' = Created
  BY <1>1 DEF Created
<1>12. QED
  BY <1>0, <1>1, <1>10, <1>11, OpensFrame

LEMMA CreatedIs == Created = Elements(worker.created) /\ Created' = Elements(worker'.created)
BY DEF Created, Elements

LEMMA OpensListed ==
  ASSUME NEW G, ListTyped, Opens, Listed(G),
         HeldInv(G) \/ (Recognised /\ G \subseteq LedgerGroups)
  PROVE  Listed(G)' /\ (HeldInv(G) => HeldInv(G)')
<1>0. /\ CashTyped /\ worker.created \in Seq(Nat) /\ Len(fo) + 1 \in Nat
      /\ HeaderIds \subseteq Nat /\ HeaderIds = 1..Len(fo)
  BY SeqFacts DEF ListTyped, RunTyped
<1>1. /\ worker.pc \in {"open"} \cup AtJournal /\ worker.at \in Groups
      /\ worker'.at = worker.at /\ worker'.snap = worker.snap
      /\ worker'.pc \in AtJournal \cup {"complete", "caught"}
  BY <1>0, OpensTo
<1>2. ~SnapDone(worker.at) /\ ~SnapDone(worker.at)'
  BY <1>1 DEF Listed, KeyInv, SnapDone, OfGroup, InLoop, AtJournal
<1>3. \A g \in Groups : LinesIn(G, fo', g) \subseteq LinesIn(G, fo, g)
  BY <1>0, NoNewLines
<1>4. CASE RelinkHeader \/ SetCreatedHeader
  <2>1. /\ worker.at \in Groups /\ worker.key \in HeaderIds /\ UNCHANGED fo
        /\ SetGroup(worker.at, [groups[worker.at] EXCEPT !.header = worker.key])
        /\ \/ worker.pc = "relink" /\ Goto("verify")
           \/ worker.pc = "record" /\ Goto("lines")
    BY <1>0, <1>4, RecordsKey
  <2>2. /\ worker'.key = worker.key /\ worker'.created = worker.created
        /\ \/ worker.pc = "relink" /\ worker'.pc = "verify"
           \/ worker.pc = "record" /\ worker'.pc = "lines"
    BY <1>0, <2>1, GotoKeeps
  <2>3. LinesIn(G, fo, worker.at) \subseteq {worker.key}
    BY <2>2 DEF Listed, KeyInv, HeldBy
  <2>4. Created' = Created
    BY <2>2 DEF Created
  <2>5. worker.pc = "record" => worker.key \in Created
    BY DEF Listed, KeyInv
  <2>6. ~Gone(worker.at)' => groups'[worker.at].header = worker.key
    BY <1>0, <1>1, <2>1, HeaderSet DEF Gone
  <2>7. KeyInv(G)'
    BY <1>1, <1>2, <2>1, <2>2, <2>3, <2>4, <2>5, <2>6 DEF KeyInv, HeldBy
  <2>8. QED
    BY <2>1, <2>3, <2>4, <2>7, OpensFrame
<1>5. CASE VerifyHeader
  <2>1. /\ worker.pc = "verify" /\ worker.key \in HeaderIds
        /\ UNCHANGED <<fo, groups>> /\ worker'.key = worker.key
        /\ \/ /\ ~fo[worker.key].live \/ fo[worker.key].group # worker.at
              /\ worker'.pc = "create" /\ worker'.created = worker.created
           \/ /\ worker'.pc \in {"complete", "lines"}
              /\ worker'.created = Append(worker.created, worker.key)
    BY <1>0, <1>5, VerifiesKey
  <2>2. /\ LinesIn(G, fo, worker.at) \subseteq {worker.key}
        /\ ~Gone(worker.at) => groups[worker.at].header = worker.key
    BY <2>1 DEF Listed, KeyInv, HeldBy
  <2>3. worker'.pc = "create" => LinesIn(G, fo, worker.at) = {}
    BY <1>0, <2>1, <2>2, LinesAre
  <2>4. Elements(Append(worker.created, worker.key)) = Elements(worker.created) \cup {worker.key}
    BY <1>0, <2>1, AppendElements
  <2>5. /\ Created \subseteq Created'
        /\ worker'.pc \in {"complete", "lines"} => worker.key \in Created'
    BY <2>1, <2>4, CreatedIs
  <2>6. KeyInv(G)'
    BY <1>1, <1>2, <2>1, <2>2, <2>3, <2>5 DEF KeyInv, HeldBy, Gone
  <2>7. QED
    BY <2>1, <2>5, <2>6, OpensFrame
<1>6. CASE CreateHeader
  <2>1. /\ worker.pc = "create" /\ UNCHANGED groups /\ worker'.key = Len(fo) + 1
        /\ worker'.pc = "record" /\ worker'.created = Append(worker.created, Len(fo) + 1)
    BY <1>0, <1>6, CreatesKey
  <2>2. LinesIn(G, fo', worker.at) = {}
    BY <1>1, <1>3, <2>1 DEF Listed, KeyInv
  <2>3. Created' = Created \cup {Len(fo) + 1}
    BY <1>0, <2>1, AppendElements, CreatedIs
  <2>4. KeyInv(G)'
    BY <1>1, <1>2, <2>1, <2>2, <2>3 DEF KeyInv
  <2>5. QED
    BY <2>1, <2>3, <2>4, OpensFrame
<1>7. CASE HeaderUnanswered
  <2>1. /\ worker.pc = "create" /\ UNCHANGED groups
        /\ UNCHANGED worker \/ Goto("caught")
    BY <1>0, <1>7, UnansweredKey
  <2>2. worker'.created = worker.created /\ worker'.pc \in {"create", "caught"}
    BY <1>0, <2>1, GotoKeeps
  <2>3. LinesIn(G, fo', worker.at) = {}
    BY <1>1, <1>3, <2>1 DEF Listed, KeyInv
  <2>4. KeyInv(G)'
    BY <1>1, <1>2, <2>2, <2>3 DEF KeyInv, OfGroup, InLoop, AtJournal
  <2>5. Created' = Created
    BY <2>2 DEF Created
  <2>6. QED
    BY <2>1, <2>4, <2>5, OpensFrame
<1>8. CASE RecreateHeader
  <2>1. /\ worker.pc = "lines" /\ worker.key \in HeaderIds /\ ~fo[worker.key].live
        /\ UNCHANGED <<fo, groups>>
        /\ \/ worker'.pc = "caught" /\ worker'.created = worker.created
           \/ /\ worker'.pc = "create"
              /\ worker'.created = Seqs!RemoveFirst(worker.created, worker.key)
    BY <1>0, <1>8, RecreatesKey
  <2>2. LinesIn(G, fo, worker.at) = {}
    BY <1>0, <2>1, LinesAre DEF Listed, KeyInv, HeldBy
  <2>3. worker.key \in Elements(worker.created)
    BY <2>1, CreatedIs DEF Listed, KeyInv
  <2>4. Created \ {worker.key} \subseteq Created'
    BY <1>0, <2>1, <2>3, RemoveFirstElements, CreatedIs
  <2>5. \A g \in Groups : worker.key \notin LinesIn(G, fo, g)
    BY <1>0, <2>1, LinesAre
  <2>6. KeyInv(G)'
    BY <1>1, <1>2, <2>1, <2>2 DEF KeyInv, OfGroup, InLoop, AtJournal
  <2>7. QED
    BY <2>1, <2>4, <2>5, <2>6, OpensFrame
<1>9. QED
  BY <1>4, <1>5, <1>6, <1>7, <1>8, FindListed DEF Opens

LEMMA WritesListed ==
  ASSUME NEW G, ListTyped, Writes, OwnKey, Listed(G)
  PROVE  Listed(G)' /\ (HeldInv(G) => HeldInv(G)')
<1>0. CashTyped /\ Groups = 1..N /\ N \in Nat
  BY SeqFacts DEF ListTyped
<1>1. /\ worker.pc = "lines" /\ worker.key \in HeaderIds /\ worker.at \in Groups
      /\ UNCHANGED <<batch, groups>> /\ (Goto("complete") \/ Goto("caught"))
  BY <1>0, WritesLines
<1>2. /\ worker'.at = worker.at /\ worker'.snap = worker.snap /\ worker'.key = worker.key
      /\ worker'.created = worker.created /\ worker'.pc \in {"complete", "caught"}
  BY <1>0, <1>1, GotoKeeps
<1>3. /\ LinesIn(G, fo, worker.at) \subseteq {worker.key} /\ worker.key \in Created
      /\ ~Gone(worker.at) => groups[worker.at].header = worker.key
      /\ ~SnapDone(worker.at)
  BY <1>1 DEF Listed, KeyInv, HeldBy, OfGroup, InLoop, AtJournal
<1>4. /\ LinesIn(G, fo', worker.at) \subseteq {worker.key}
      /\ \A g \in Groups \ {worker.at} : LinesIn(G, fo', g) \subseteq LinesIn(G, fo, g)
  BY <1>0, <1>1, <1>3, NewLines
<1>5. Created' = Created
  BY <1>2 DEF Created
<1>6. /\ worker.pc \in Loop /\ worker.pc \notin {"check", "count", "settle"}
      /\ worker'.pc \notin {"check", "count", "settle", "markGroup", "open", "clear",
                            "posted", "stop"}
  BY <1>1, <1>2 DEF Loop, OfGroup, InLoop, AtJournal
<1>7. ASSUME NEW g \in Groups
      PROVE  (Ahead(g)' => Ahead(g) /\ g # worker.at) /\ (Passed(g)' => Passed(g) /\ g # worker.at)
  BY <1>0, <1>1, <1>2, <1>6 DEF Ahead, Passed
<1>8. KeyInv(G)'
  BY <1>1, <1>2, <1>3, <1>4, <1>5 DEF KeyInv, HeldBy, Gone, SnapDone, OfGroup, InLoop, AtJournal
<1>9. batch.status # "Posted"
  BY <1>6 DEF Listed, ListInv
<1>10. ListInv(G)'
  BY <1>1, <1>2, <1>4, <1>5, <1>6, <1>7, <1>9 DEF Listed, ListInv, SnapDone
<1>11. GroupsInv(G)'
  <2>1. ASSUME NEW g \in Groups, groups'[g].status = "completed"
        PROVE  LinesIn(G, fo', g) \subseteq {groups'[g].header}
    BY <1>1, <1>3, <1>4, <2>1 DEF Listed, GroupsInv, HeldBy, Gone
  <2>2. ASSUME NEW g \in Groups
        PROVE  /\ SnapDone(g)' => LinesIn(G, fo', g) \subseteq {worker'.snap[g].header}
               /\ SnapDone(g)' \/ Passed(g)' => Ended(g)'
    BY <1>1, <1>2, <1>3, <1>4, <1>6, <1>7 DEF Listed, GroupsInv, SnapDone, Ended, HeldBy
  <2>3. QED
    BY <1>1, <1>2, <1>6, <1>7, <2>1, <2>2 DEF Listed, GroupsInv, HeldBy, Gone
<1>12. HeldInv(G) => HeldInv(G)'
  BY <1>1, <1>2, <1>3, <1>4, <1>6, <1>7 DEF HeldInv, HeldBy, Gone
<1>13. QED
  BY <1>8, <1>10, <1>11, <1>12 DEF Listed

-----------------------------------------------------------------------------
(* All together.                                                           *)

(* One submission has no second journal with lines, on any route.          *)
Single == \A g \in Groups : \A h, k \in LinesIn(Groups, fo, g) : h = k
OneRequest == HeldInv(Groups) /\ Listed(Groups) /\ Single

CashInv ==
  /\ ListTyped /\ RequestInv /\ OwnKey /\ NotRepeated
  /\ Prefixes = {} => OneInv
  /\ OneAtATime /\ spent.crashes = 0 => OrderInv
  /\ spent.submits <= 1 => OneRequest
  /\ Alone => Listed(LedgerGroups)

LEMMA ListedStep ==
  ASSUME NEW G, CashTyped, CashNext, ListTyped, Calm, RequestInv, OwnKey,
         Alone => OrderInv, Listed(G),
         HeldInv(G) \/ (Recognised /\ G \subseteq LedgerGroups)
  PROVE  Listed(G)' /\ (spent.submits <= 1 /\ HeldInv(G) => HeldInv(G)')
<1>1. CASE Aside
  BY <1>1, AsideListed
<1>2. CASE Ends \/ Leaves \/ Walks
  BY <1>2, EndsListed, LeavesListed, WalksListed
<1>3. CASE Reads
  BY <1>3, ListListed, CheckListed DEF Reads
<1>4. CASE Opens \/ Writes
  BY <1>4, OpensListed, WritesListed
<1>5. CASE Finance
  BY <1>5, FinanceListed
<1>6. QED
  BY <1>1, <1>2, <1>3, <1>4, <1>5, Kinds

(* Lines appear only in the journal that the processor holds, and there    *)
(* only if no other journal of the group has any.                          *)
LEMMA SingleStep ==
  ASSUME CashTyped, CashNext, OwnKey, KeyInv(Groups), Single
  PROVE  Single'
<1>1. CASE Writes
  <2>1. worker.pc = "lines" /\ worker.at \in Groups
    BY <1>1, WritesLines
  <2>2. LinesIn(Groups, fo, worker.at) \subseteq {worker.key}
    BY <2>1 DEF KeyInv, HeldBy
  <2>3. ASSUME NEW g \in Groups, NEW h \in LinesIn(Groups, fo', g),
               NEW k \in LinesIn(Groups, fo', g)
        PROVE  h = k
    <3>1. CASE g = worker.at
      BY <1>1, <2>2, <3>1, NewLines
    <3>2. CASE g # worker.at
      BY <1>1, <3>2, NewLines DEF Single
    <3>3. QED
      BY <3>1, <3>2
  <2>4. QED
    BY <2>3 DEF Single
<1>2. CASE UNCHANGED fo \/ Opens \/ Finance
  <2>1. \A g \in Groups : LinesIn(Groups, fo', g) \subseteq LinesIn(Groups, fo, g)
    BY <1>2, NoNewLines
  <2>2. QED
    BY <2>1 DEF Single
<1>3. CASE Aside \/ Ends \/ Leaves \/ Walks \/ Reads
  BY <1>2, <1>3 DEF Aside, Ends, Leaves, Walks, Reads, Quiet
<1>4. QED
  BY <1>1, <1>2, <1>3, Kinds

LEMMA CashInvInit == RInit => CashInv
<1> SUFFICES ASSUME RInit PROVE CashInv
  OBVIOUS
<1>1. /\ batch = [exists |-> TRUE, status |-> "PendingPosting", paused |-> FALSE, dfoIds |-> {}]
      /\ job = [status |-> "none", completed |-> 0] /\ groups = NoGroups
      /\ redis = NoRedisJob /\ fo = <<>> /\ worker = IdleWorker
      /\ subs = [s \in Submitters |-> "idle"] /\ ctl = "idle" /\ boot = "done"
      /\ spent = [submits |-> 0, pauses |-> 0, deletes |-> 0, faults |-> 0, crashes |-> 0]
  BY DEF RInit, Init
<1>2. /\ worker.pc = "idle" /\ worker.created = <<>> /\ redis.state = "absent"
      /\ IsRedis(redis) /\ spent \in Spendings /\ spent.submits = 0
      /\ batch.status = "PendingPosting" /\ IsBatch(batch) /\ IsJob(job) /\ job.status = "none"
  BY <1>1 DEF IdleWorker, NoRedisJob, IsRedis, Spendings, IsBatch, IsJob
<1>3. CashTyped /\ OwnKey /\ NotRepeated /\ OneInv
  BY ForeignInit DEF ForeignInv
<1>4. ListTyped
  BY <1>1, <1>2, <1>3
  DEF ListTyped, SideTyped, RunTyped, OfGroup, InLoop, AtJournal
<1>5. RequestInv
  BY <1>1, <1>2 DEF RequestInv, Untouched
<1>6. OrderInv
  BY <1>1, <1>2
  DEF OrderInv, QueueInv, AskInv, PauseInv, StatusInv, Storing, Requeueing, GivenUp
<1>7. worker.pc \notin Loop \cup {"settle", "clear", "posted", "stop"}
  BY <1>2 DEF Loop, OfGroup, InLoop, AtJournal
<1>8. \A g \in Groups : Gone(g)
  BY <1>1 DEF Gone, NoGroups, Absent
<1>9. ASSUME NEW G PROVE Listed(G) /\ HeldInv(G)
  <2>1. KeyInv(G)
    BY <1>7 DEF KeyInv, Loop, OfGroup, InLoop, AtJournal
  <2>2. GroupsInv(G) /\ HeldInv(G)
    BY <1>1, <1>7, <1>8 DEF GroupsInv, HeldInv, Gone
  <2>3. ListInv(G)
    BY <1>2, <1>7 DEF ListInv
  <2>4. QED
    BY <2>1, <2>2, <2>3 DEF Listed
<1>10. Single
  BY <1>1 DEF Single, LinesIn
<1>11. QED
  BY <1>3, <1>4, <1>5, <1>6, <1>9, <1>10 DEF CashInv, OneRequest

LEMMA CashInvStep ==
  ASSUME CashInv, [CashNext]_rvars
  PROVE  CashInv'
<1>0. ListTyped /\ CashTyped /\ RequestInv /\ OwnKey /\ NotRepeated
  BY DEF CashInv, ListTyped
<1>1. CASE UNCHANGED rvars
  <2>1. UNCHANGED <<batch, job, groups, redis, fo, worker, subs, ctl, boot, spent, outside>>
    BY <1>1 DEF rvars, vars
  <2>2. ListTyped' /\ RequestInv' /\ OwnKey' /\ (Alone' <=> Alone)
    BY <1>0, <2>1
    DEF ListTyped, SideTyped, RunTyped, CashTyped, RequestInv, Fresh, Untouched,
        OwnKey, Alone, IsWorker, IsBatch, IsRedis, IsJob, GroupDocs, HeaderIds
  <2>3. NotRepeated' /\ (Prefixes = {} => OneInv')
    BY <1>0, <1>1, CashStep DEF CashInv
  <2>4. OrderInv => OrderInv'
    BY <2>1
    DEF OrderInv, QueueInv, AskInv, PauseInv, StatusInv, GivenUp, isFinalAttempt
  <2>5. ASSUME NEW G PROVE (HeldInv(G) => HeldInv(G)') /\ (Listed(G) => Listed(G)')
    <3>1. GroupsInv(G) => GroupsInv(G)'
      BY <2>1 DEF GroupsInv, HeldBy, Gone, SnapDone, Ahead, Passed, Ended
    <3>2. KeyInv(G) => KeyInv(G)'
      BY <2>1 DEF KeyInv, HeldBy, Gone, SnapDone, Created
    <3>3. ListInv(G) => ListInv(G)'
      BY <2>1 DEF ListInv, SnapDone, Passed, Ended, Created, Unposted
    <3>4. HeldInv(G) => HeldInv(G)'
      BY <2>1 DEF HeldInv, HeldBy, Gone, Ahead
    <3>5. QED
      BY <3>1, <3>2, <3>3, <3>4 DEF Listed
  <2>6. Single => Single'
    BY <2>1 DEF Single
  <2>7. QED
    BY <2>1, <2>2, <2>3, <2>4, <2>5, <2>6 DEF CashInv, OneRequest
<1>2. CASE CashNext
  <2>1. ListTyped' /\ RequestInv'
    BY <1>0, <1>2, TypedStep, RequestStep
  <2>2. OwnKey' /\ NotRepeated' /\ (Prefixes = {} => OneInv')
    BY <1>0, <1>2, CashStep DEF CashInv
  <2>3. /\ spent.submits <= spent'.submits
        /\ spent.submits \in Nat /\ spent'.submits \in Nat
        /\ spent'.crashes = 0 => spent.crashes = 0
        /\ Alone' => Alone
    BY <1>0, <1>2, SpentGrows
  <2>4. OneAtATime /\ spent'.crashes = 0 => OrderInv'
    BY <1>0, <1>2, <2>3, OrderStep DEF CashInv
  <2>5. OneAtATime' <=> OneAtATime
    BY DEF OneAtATime
  <2>6. Alone => OrderInv
    BY DEF CashInv, Alone
  <2>7. ASSUME spent'.submits <= 1 PROVE OneRequest'
    <3>1. spent.submits <= 1 /\ OneRequest
      BY <2>3, <2>7 DEF CashInv
    <3>2. Listed(Groups)' /\ HeldInv(Groups)'
      BY <1>0, <1>2, <2>6, <3>1, ListedStep DEF OneRequest, Calm
    <3>3. Single'
      BY <1>0, <1>2, <3>1, SingleStep DEF OneRequest, Listed
    <3>4. QED
      BY <3>2, <3>3 DEF OneRequest
  <2>8. ASSUME Alone' PROVE Listed(LedgerGroups)'
    <3>1. Alone /\ Listed(LedgerGroups)
      BY <2>3, <2>8 DEF CashInv
    <3>2. Recognised
      BY <3>1 DEF CashInv, Alone, Recognised
    <3>3. QED
      BY <1>0, <1>2, <2>6, <3>1, <3>2, ListedStep DEF Calm
  <2>9. QED
    BY <2>1, <2>2, <2>4, <2>5, <2>7, <2>8 DEF CashInv
<1>3. QED
  BY <1>1, <1>2

LEMMA LinesInIs ==
  ASSUME NEW G, NEW g \in G PROVE WithLines(g) = LinesIn(G, fo, g)
BY DEF WithLines, Own, Live, HeaderIds, LinesIn

(* Of a batch for which there was one request, the ids that completeBatch  *)
(* leaves in dfoIds name every journal of the batch that has lines, in     *)
(* whatever order the runs failed, answers were lost, the process crashed, *)
(* Finance cleaned up, and the batch was paused, resumed or deleted.       *)
THEOREM CashListedOnce ==
  CashSpec => [](spent.submits <= 1 => PostedJournalsListed)
<1>1. CashInv => (spent.submits <= 1 => PostedJournalsListed)
  <2> SUFFICES ASSUME CashInv, spent.submits <= 1, batch.status = "Posted", NEW g \in Groups
               PROVE  WithLines(g) \subseteq batch.dfoIds
    BY DEF PostedJournalsListed
  <2>1. LinesIn(Groups, fo, g) \subseteq batch.dfoIds
    BY DEF CashInv, OneRequest, Listed, ListInv
  <2>2. QED
    BY <2>1, LinesInIs
<1>2. CashInv /\ [CashNext]_rvars => CashInv'
  BY CashInvStep
<1>3. QED
  BY <1>1, <1>2, CashInvInit, PTL DEF CashSpec

(* Of a batch of up to ten journals that is posted again, with its groups  *)
(* replaced, the journals of the ledger route are listed too, if the       *)
(* requests for it come one after the other, as long as the process does   *)
(* not crash and no answer is lost: the run asks Finance for the journals  *)
(* of earlier submissions (findHeadersByIntegrationMarker).  Those of the  *)
(* other routes are not: their strategies have no such look-up.            *)
THEOREM CashListedAgain ==
  ASSUME Prefixes = {}, OneAtATime
  PROVE  CashSpec => []PostedJournalsListed
<1>1. CashInv => PostedJournalsListed
  <2> SUFFICES ASSUME CashInv, batch.status = "Posted", NEW g \in Groups,
                      \/ spent.submits = 1
                      \/ g \in LedgerGroups /\ spent.crashes = 0 /\ outside.lost = 0
               PROVE  WithLines(g) \subseteq batch.dfoIds
    BY DEF PostedJournalsListed
  <2>1. CASE spent.submits = 1
    <3>1. LinesIn(Groups, fo, g) \subseteq batch.dfoIds
      BY <2>1 DEF CashInv, OneRequest, Listed, ListInv
    <3>2. QED
      BY <3>1, LinesInIs
  <2>2. CASE g \in LedgerGroups /\ spent.crashes = 0 /\ outside.lost = 0
    <3>1. LinesIn(LedgerGroups, fo, g) \subseteq batch.dfoIds
      BY <2>2 DEF CashInv, Alone, Listed, ListInv
    <3>2. QED
      BY <2>2, <3>1, LinesInIs
  <2>3. QED
    BY <2>1, <2>2
<1>2. CashInv /\ [CashNext]_rvars => CashInv'
  BY CashInvStep
<1>3. QED
  BY <1>1, <1>2, CashInvInit, PTL DEF CashSpec

(* Of one submission no journal is posted into a second one on any route,  *)
(* whether or not it looks journals up by their marker, and no line is     *)
(* posted twice where the lines that are there are skipped, as long as no  *)
(* answer of Finance is lost, in spite of retries, crashes, stops and      *)
(* deletions by Finance (postLinesForHeader, setCreatedHeader).            *)
THEOREM CashLinesOnce == CashSpec => []LinesOnce
<1>1. CashInv => LinesOnce
  <2> SUFFICES ASSUME CashInv, outside.lost = 0, spent.submits <= 1, NEW g \in Groups
               PROVE  /\ Cardinality(WithLines(g)) <= 1
                      /\ g \notin LedgerGroups =>
                           \A h \in Own(g) : fo[h].lines \in {"none", "partial", "full"}
    BY DEF LinesOnce
  <2>1. CashTyped
    BY DEF CashInv, ListTyped
  <2>2. IsFiniteSet(WithLines(g))
    BY <2>1, OwnFinite, FS_Subset DEF WithLines
  <2>3. \A h, k \in WithLines(g) : h = k
    BY LinesInIs DEF CashInv, OneRequest, Single
  <2>4. Cardinality(WithLines(g)) <= 1
    BY <2>2, <2>3, AtMostOne
  <2>5. g \notin LedgerGroups =>
          \A h \in Own(g) : fo[h].lines \in {"none", "partial", "full"}
    BY DEF CashInv, NotRepeated, OnceLines, Own, Live
  <2>6. QED
    BY <2>4, <2>5
<1>2. CashInv /\ [CashNext]_rvars => CashInv'
  BY CashInvStep
<1>3. QED
  BY <1>1, <1>2, CashInvInit, PTL DEF CashSpec
=============================================================================
