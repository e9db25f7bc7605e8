-------------------------- MODULE MCLedgerPosting --------------------------
(* LedgerPosting with a history variable.                                  *)
EXTENDS LedgerPosting

VARIABLE late  \* journals started since the batch was last paused or deleted

Stopped == batch.paused \/ ~batch.exists
StartsJournal == worker.pc = "open" /\ worker'.pc \in {"record", "lines"}

HInit == Init /\ late = 0
HNext == /\ Next
         /\ late' = IF ~Stopped' THEN 0 ELSE IF StartsJournal THEN late + 1 ELSE late
HSpec == HInit /\ [][HNext]_<<vars, late>> /\ Fairness

(* isPaused is read before every journal, so a batch that has been paused  *)
(* or deleted gets at most the journal its worker was about to write.      *)
StopsAfterTheCurrentJournal == late <= 1
=============================================================================
