------------------------- MODULE PostingLifecycle -------------------------
(***************************************************************************)
(* What posting a batch to D365FO promises, whatever the kind of journal:  *)
(* all of the batch or nothing.  A submitted batch is Posting; its         *)
(* journals appear one by one and are withdrawn when one fails; the batch  *)
(* becomes Posted only when every journal is there, and Canceled only      *)
(* when none is left that Finance would let go.                            *)
(***************************************************************************)
CONSTANT Groups

VARIABLES
  phase,    \* status of the batch
  posted,   \* groups whose journal is complete in Finance
  stuck     \* groups with a journal Finance refused to delete

vars == <<phase, posted, stuck>>

Init == phase = "PendingPosting" /\ posted = {} /\ stuck = {}

Submit == /\ phase \in {"PendingPosting", "Canceled"}
          /\ phase' = "Posting"
          /\ UNCHANGED <<posted, stuck>>

Post(g) == /\ phase = "Posting" /\ g \notin posted
           /\ posted' = posted \cup {g}
           /\ UNCHANGED <<phase, stuck>>

(* Withdrawing a journal succeeds, or leaves it stuck with or without its  *)
(* lines; a stuck journal goes when a later withdrawal succeeds.           *)
Withdraw(g) == /\ phase = "Posting"
               /\ posted' \in {posted, posted \ {g}}
               /\ stuck' \in {stuck \ {g}, stuck \cup {g}}
               /\ g \in posted' => g \in stuck'
               /\ UNCHANGED phase

Finish == /\ phase = "Posting" /\ posted = Groups
          /\ phase' = "Posted"
          /\ UNCHANGED <<posted, stuck>>

GiveUp == /\ phase = "Posting" /\ posted \subseteq stuck
          /\ phase' = "Canceled"
          /\ UNCHANGED <<posted, stuck>>

Next == Submit \/ Finish \/ GiveUp \/ \E g \in Groups : Post(g) \/ Withdraw(g)

Spec == Init /\ [][Next]_vars
=============================================================================
