----------------------- MODULE Reconciliation_proofs -----------------------
(***************************************************************************)
(* The properties of Reconciliation for every number of ledger and bank    *)
(* rows.  BankGivenOnce is not inductive: a phase gives what is free by    *)
(* usedBanks, so every bank row with a reference that a row has must be in *)
(* it (UsedCovers), and rows that share one must not be matched again      *)
(* (SharedConfirmed).  ConfirmedIsFinal needs that phase 1 only comes to   *)
(* rows without a match (NotReached).                                      *)
(***************************************************************************)
EXTENDS Reconciliation, TLAPS

Statuses == {"none", "Matched", "Review", "Unmatched"}
MatchType == [status : Statuses, bank : Banks \cup {NoBank}, shared : BOOLEAN]

SheetTypeOK == sheet \in [kind : [Rows -> Kinds], named : SUBSET Banks,
                          many : BOOLEAN, forceAll : BOOLEAN]

(* A row of phase 1 that has not been reached has no match.                *)
NotReached == phase = 1 => \A r \in Rows : r >= row => matches[r] = NoMatch

(* What a row other than a preserved one has, has a reference.             *)
GivenIsNamed ==
  \A r \in Rows : ~Preserved(r) => BankOf(r) \in sheet.named \cup {NoBank}

UsedCovers ==
  ~sheet.many => \A r \in Rows : BankOf(r) \in sheet.named => BankOf(r) \in used

SharedConfirmed ==
  \A r \in Rows : matches[r].shared => Confirmed(r) /\ ~Preserved(r)

(* What is said of the matches, and what is said of the place.             *)
MatchesInv ==
  /\ SheetTypeOK /\ matches \in [Rows -> MatchType] /\ used \subseteq Banks
  /\ GivenIsNamed /\ UsedCovers /\ SharedConfirmed /\ BankGivenOnce

GivenInv == MatchesInv /\ phase \in 1..7 /\ row \in Nat \ {0} /\ NotReached

LEMMA GivenInvInit == ReconInit => GivenInv
<1> SUFFICES ASSUME ReconInit PROVE GivenInv
  OBVIOUS
<1>1. /\ matches = [r \in Rows |-> NoMatch] /\ used = {} /\ phase = 1 /\ row = 1
      /\ SheetTypeOK
  BY DEF ReconInit, SheetTypeOK
<1>2. /\ NoMatch \in MatchType
      /\ NoMatch.bank = NoBank /\ NoMatch.shared = FALSE
  BY DEF NoMatch, Match, MatchType, Statuses
<1>3. matches \in [Rows -> MatchType] /\ \A r \in Rows : matches[r] = NoMatch
  BY <1>1, <1>2
<1>4. NoBank \notin sheet.named
  BY <1>1, ReconciliationAssumption DEF SheetTypeOK
<1>5. GivenIsNamed /\ UsedCovers /\ SharedConfirmed /\ BankGivenOnce
  BY <1>2, <1>3, <1>4 DEF GivenIsNamed, UsedCovers, SharedConfirmed, BankGivenOnce, BankOf
<1>6. QED
  BY <1>1, <1>3, <1>5 DEF GivenInv, MatchesInv, NotReached

(* One row is decided: it is given a bank row that is free, or nothing, or *)
(* what it had, unless it is a preserved row, which may have any.          *)
LEMMA DecideStep ==
  ASSUME MatchesInv, row \in Rows,
         NEW st \in Statuses, NEW b \in Banks \cup {NoBank},
         Decide(Match(st, b)), UNCHANGED sheet,
         used \subseteq used', used' \subseteq Banks,
         ~sheet.many /\ b # NoBank => b \in used',
         \/ Preserved(row)
         \/ b \in Free \cup {NoBank}
         \/ b = BankOf(row) /\ b \in sheet.named /\ ~Confirmed(row)
  PROVE  MatchesInv'
<1>1. /\ SheetTypeOK /\ matches \in [Rows -> MatchType]
      /\ GivenIsNamed /\ UsedCovers /\ SharedConfirmed /\ BankGivenOnce
  BY DEF MatchesInv
<1>2. /\ Match(st, b) \in MatchType
      /\ Match(st, b).bank = b /\ Match(st, b).shared = FALSE
  BY DEF Match, MatchType
<1>3. /\ matches' \in [Rows -> MatchType]
      /\ matches'[row] = Match(st, b)
      /\ \A r \in Rows : r # row => matches'[r] = matches[r]
  BY <1>1, <1>2 DEF Decide
<1>4. matches'[row].bank = b /\ matches'[row].shared = FALSE
  BY <1>2, <1>3
<1>5. sheet' = sheet /\ SheetTypeOK'
  BY <1>1 DEF SheetTypeOK
<1>6. sheet.named \subseteq Banks /\ NoBank \notin sheet.named
  BY <1>1, ReconciliationAssumption DEF SheetTypeOK
<1>7. Free \subseteq sheet.named /\ (~sheet.many => Free \cap used = {})
  BY DEF Free
<1>8. GivenIsNamed'
  BY <1>1, <1>3, <1>4, <1>5, <1>7 DEF GivenIsNamed, Preserved, BankOf
<1>9. UsedCovers'
  BY <1>1, <1>3, <1>4, <1>5, <1>6 DEF UsedCovers, BankOf
<1>10. SharedConfirmed'
  BY <1>1, <1>3, <1>4, <1>5 DEF SharedConfirmed, Confirmed, Preserved, BankOf
<1>11. ASSUME ~sheet.many, ~Preserved(row), b # NoBank, NEW s \in Rows,
              s # row, ~Preserved(s), BankOf(s) = b
       PROVE  FALSE
  <2>1. b \in sheet.named
    BY <1>1, <1>7, <1>11 DEF GivenIsNamed
  <2>2. b \in used
    BY <1>1, <1>11, <2>1 DEF UsedCovers
  <2>3. b = BankOf(row) /\ ~Confirmed(row)
    BY <1>7, <1>11, <2>2
  <2>4. matches[row].shared
    BY <1>1, <1>11, <2>3 DEF BankGivenOnce
  <2>5. QED
    BY <1>1, <2>3, <2>4 DEF SharedConfirmed
<1>12. BankGivenOnce'
  <2> SUFFICES ASSUME ~sheet.many, NEW r \in Rows, NEW s \in Rows,
                      r # s, ~Preserved(r), ~Preserved(s),
                      matches'[r].bank = matches'[s].bank, matches'[r].bank # NoBank
               PROVE  matches'[r].shared /\ matches'[s].shared
    BY <1>5 DEF BankGivenOnce, Preserved, BankOf
  <2>1. r # row /\ s # row
    BY <1>3, <1>4, <1>11 DEF BankOf
  <2>2. QED
    BY <1>1, <1>3, <2>1 DEF BankGivenOnce, BankOf
<1>13. QED
  BY <1>3, <1>5, <1>8, <1>9, <1>10, <1>12 DEF MatchesInv

(* The place: every step but that of the rebuild ends in Advance.          *)
LEMMA AdvanceStep ==
  ASSUME GivenInv, Advance, phase \in 1..6
  PROVE  /\ row \in Rows /\ sheet' = sheet
         /\ phase' \in 1..7 /\ row' \in Nat \ {0}
         /\ phase' = 1 => phase = 1 /\ row' = row + 1
BY ReconciliationAssumption DEF GivenInv, Advance, Rows

LEMMA PhaseNumbers ==
  ASSUME phase \in 1..7
  PROVE  /\ In("direct") => phase = 1
         /\ In("grouped") => phase = 2
         /\ In("fuzzy") => phase = 3
         /\ In("forced") => phase = 4
         /\ In("rebuild") => phase = 5
         /\ In("cash") => phase = 6
BY DEF In, Phases

LEMMA KeepStep ==
  ASSUME MatchesInv, Keep, UNCHANGED sheet PROVE MatchesInv'
BY DEF MatchesInv, SheetTypeOK, Keep, GivenIsNamed, UsedCovers, SharedConfirmed,
       BankGivenOnce, BankOf, Preserved, Confirmed

LEMMA TakeStep ==
  ASSUME MatchesInv, NEW b \in Banks \cup {NoBank}, Take(b)
  PROVE  /\ used \subseteq used' /\ used' \subseteq Banks
         /\ ~sheet.many /\ b # NoBank => b \in used'
BY DEF MatchesInv, Take

LEMMA FreeNamed ==
  ASSUME MatchesInv
  PROVE  Free \subseteq sheet.named /\ sheet.named \subseteq Banks /\ NoBank \notin sheet.named
BY ReconciliationAssumption DEF MatchesInv, SheetTypeOK, Free

(* The row stays without a bank row, or is left without one.               *)
LEMMA NothingStep ==
  ASSUME MatchesInv, row \in Rows, NEW st \in Statuses,
         Decide(Match(st, NoBank)), UNCHANGED <<sheet, used>>
  PROVE  MatchesInv'
<1>1. used \subseteq used' /\ used' \subseteq Banks
  BY DEF MatchesInv
<1>2. QED
  BY <1>1, DecideStep

LEMMA DirectSteps ==
  ASSUME GivenInv, PreserveReference \/ DirectMatch
  PROVE  MatchesInv' /\ NotReached'
<1>1. MatchesInv /\ phase = 1 /\ NotReached
  BY PhaseNumbers DEF GivenInv, PreserveReference, DirectMatch
<1>2. Advance
  BY DEF PreserveReference, DirectMatch
<1>3. row \in Rows /\ sheet' = sheet /\ row' \in Nat /\ (phase' = 1 => row' = row + 1)
  BY <1>1, <1>2, AdvanceStep
<1>4. (\E m \in MatchType : Decide(m)) \/ Keep => NotReached'
  <2>1. row \in Nat /\ Rows \subseteq Int
    BY DEF GivenInv, Rows
  <2>2. ASSUME \A r \in Rows : r # row => matches'[r] = matches[r] PROVE NotReached'
    BY <1>1, <1>3, <2>1, <2>2 DEF NotReached
  <2>3. matches \in [Rows -> MatchType]
    BY <1>1 DEF MatchesInv
  <2>4. QED
    BY <2>2, <2>3 DEF Decide, Keep
<1>5. \A st \in Statuses, b \in Banks \cup {NoBank} : Match(st, b) \in MatchType
  BY DEF Match, MatchType
<1>6. Free \subseteq Banks
  BY <1>1, FreeNamed
<1>7. CASE PreserveReference
  <2>1. PICK b \in Banks \cup {NoBank} :
          /\ Decide(Match(IF b = NoBank THEN "Review" ELSE "Matched", b)) /\ Take(b)
    BY <1>7 DEF PreserveReference
  <2>2. PICK st \in Statuses : Decide(Match(st, b))
    BY <2>1 DEF Statuses
  <2>3. Preserved(row)
    BY <1>7 DEF PreserveReference, Is, Preserved
  <2>4. MatchesInv'
    BY <1>1, <1>3, <2>1, <2>2, <2>3, TakeStep, DecideStep
  <2>5. QED
    BY <1>4, <1>5, <2>2, <2>4
<1>8. CASE DirectMatch
  <2>1. PICK found \in SUBSET Banks :
          \/ \E b \in Available(found), status \in {"Matched", "Review"} :
               Decide(Match(status, b)) /\ Take(b)
          \/ Decide(Match("Review", NoBank)) /\ UNCHANGED used
          \/ Keep
    BY <1>8 DEF DirectMatch
  <2>2. CASE Keep
    BY <1>1, <1>3, <1>4, <2>2, KeepStep
  <2>3. CASE Decide(Match("Review", NoBank)) /\ UNCHANGED used
    <3>1. "Review" \in Statuses
      BY DEF Statuses
    <3>2. QED
      BY <1>1, <1>3, <1>4, <1>5, <2>3, <3>1, NothingStep
  <2>4. CASE \E b \in Available(found), status \in {"Matched", "Review"} :
               Decide(Match(status, b)) /\ Take(b)
    <3>1. PICK b \in Free, st \in Statuses : Decide(Match(st, b)) /\ Take(b)
      BY <2>4 DEF Available, Statuses
    <3>2. MatchesInv'
      BY <1>1, <1>3, <1>6, <3>1, TakeStep, DecideStep
    <3>3. QED
      BY <1>4, <1>5, <1>6, <3>1, <3>2
  <2>5. QED
    BY <2>1, <2>2, <2>3, <2>4
<1>9. QED
  BY <1>7, <1>8

LEMMA GroupedStep ==
  ASSUME GivenInv, GroupedSettlement, row \in Rows, sheet' = sheet
  PROVE  MatchesInv'
<1>1. /\ MatchesInv /\ matches \in [Rows -> MatchType] /\ SheetTypeOK /\ used \subseteq Banks
      /\ GivenIsNamed /\ UsedCovers /\ SharedConfirmed /\ BankGivenOnce
  BY DEF GivenInv, MatchesInv
<1>2. CASE Keep
  BY <1>1, <1>2, KeepStep
<1>3. CASE ~Keep
  <2>1. PICK members \in SUBSET Groupable, b \in Free :
          /\ matches' = [r \in Rows |->
               IF r \in members THEN [Match("Matched", b) EXCEPT !.shared = TRUE]
               ELSE matches[r]]
          /\ used' = used \cup {b}
    BY <1>3 DEF GroupedSettlement
  <2>2. b \in sheet.named /\ b \in Banks /\ b # NoBank
    BY <1>1, FreeNamed
  <2>3. ~sheet.many => b \notin used
    BY DEF Free
  <2>4. \A r \in members : r \in Rows /\ ~Preserved(r)
    BY DEF Groupable
  <2>5. DEFINE together == [Match("Matched", b) EXCEPT !.shared = TRUE]
  <2>6. /\ together \in MatchType /\ together.status = "Matched"
        /\ together.bank = b /\ together.shared = TRUE
    BY <2>2 DEF Match, MatchType, Statuses
  <2> HIDE DEF together
  <2>7. /\ matches' \in [Rows -> MatchType]
        /\ \A r \in members : matches'[r] = together
        /\ \A r \in Rows : r \notin members => matches'[r] = matches[r]
    BY <1>1, <2>1, <2>4, <2>6 DEF together
  <2>8. SheetTypeOK' /\ used' \subseteq Banks
    BY <1>1, <2>1, <2>2 DEF SheetTypeOK
  <2>9. GivenIsNamed'
    BY <1>1, <2>2, <2>6, <2>7 DEF GivenIsNamed, BankOf, Preserved
  <2>10. UsedCovers'
    <3>1. b \in used' /\ used \subseteq used'
      BY <2>1
    <3>2. \A r \in Rows : matches'[r].bank \in {b, matches[r].bank}
      BY <2>6, <2>7
    <3>3. QED
      BY <1>1, <3>1, <3>2 DEF UsedCovers, BankOf
  <2>11. SharedConfirmed'
    BY <1>1, <2>2, <2>4, <2>6, <2>7 DEF SharedConfirmed, Confirmed, BankOf, Preserved
  <2>12. \A r \in Rows : ~sheet.many => BankOf(r) # b
    BY <1>1, <2>2, <2>3 DEF UsedCovers
  <2>13. BankGivenOnce'
    <3> SUFFICES ASSUME ~sheet.many, NEW r \in Rows, NEW s \in Rows,
                        r # s, ~Preserved(r), ~Preserved(s),
                        matches'[r].bank = matches'[s].bank, matches'[r].bank # NoBank
                 PROVE  matches'[r].shared /\ matches'[s].shared
      BY DEF BankGivenOnce, Preserved, BankOf
    <3>1. CASE r \in members
      <4>1. s \in members
        BY <2>6, <2>7, <2>12, <3>1 DEF BankOf
      <4>2. QED
        BY <2>6, <2>7, <3>1, <4>1
    <3>2. CASE r \notin members
      <4>1. s \notin members
        BY <2>6, <2>7, <2>12, <3>2 DEF BankOf
      <4>2. QED
        BY <1>1, <2>7, <3>2, <4>1 DEF BankGivenOnce, BankOf
    <3>3. QED
      BY <3>1, <3>2
  <2>14. QED
    BY <2>7, <2>8, <2>9, <2>10, <2>11, <2>13 DEF MatchesInv
<1>4. QED
  BY <1>2, <1>3

LEMMA FuzzyStep ==
  ASSUME GivenInv, FuzzyMatch, row \in Rows, sheet' = sheet
  PROVE  MatchesInv'
<1>1. MatchesInv
  BY DEF GivenInv
<1>2. CASE Keep
  BY <1>1, <1>2, KeepStep
<1>3. CASE Decide(Unmatched) /\ UNCHANGED used
  <2>1. "Unmatched" \in Statuses /\ Decide(Match("Unmatched", NoBank))
    BY <1>3 DEF Statuses, Unmatched
  <2>2. QED
    BY <1>1, <1>3, <2>1, NothingStep
<1>4. CASE \E b \in Free, status \in {"Matched", "Review"} :
              Decide(Match(status, b)) /\ used' = used \cup {b}
  <2>1. PICK b \in Free, st \in Statuses : Decide(Match(st, b)) /\ used' = used \cup {b}
    BY <1>4 DEF Statuses
  <2>2. b \in Banks /\ used \subseteq Banks
    BY <1>1, FreeNamed DEF MatchesInv
  <2>3. used \subseteq used' /\ used' \subseteq Banks /\ b \in used'
    BY <2>1, <2>2
  <2>4. QED
    BY <1>1, <2>1, <2>2, <2>3, DecideStep
<1>5. QED
  BY <1>2, <1>3, <1>4 DEF FuzzyMatch

(* A weak phase that may confirm what the row has.                         *)
LEMMA WeakStep ==
  ASSUME MatchesInv, row \in Rows, sheet' = sheet, ~Settled(row),
         NEW b \in FreeFor(row), Decide(Match("Review", b)), Take(b)
  PROVE  MatchesInv'
<1>1. b \in Banks /\ "Review" \in Statuses
  BY FreeNamed DEF FreeFor, Statuses
<1>2. ~Confirmed(row)
  BY DEF Settled
<1>3. b \in Free \/ (b = BankOf(row) /\ b \in sheet.named)
  BY DEF FreeFor
<1>4. /\ used \subseteq used' /\ used' \subseteq Banks
      /\ ~sheet.many /\ b # NoBank => b \in used'
  BY <1>1, TakeStep
<1>5. QED
  BY <1>1, <1>2, <1>3, <1>4, DecideStep

LEMMA ForcedStep ==
  ASSUME GivenInv, ForcedMatch, row \in Rows, sheet' = sheet
  PROVE  MatchesInv'
<1>1. MatchesInv
  BY DEF GivenInv
<1>2. CASE Keep
  BY <1>1, <1>2, KeepStep
<1>3. CASE Decide(Unmatched) /\ UNCHANGED used
  <2>1. "Unmatched" \in Statuses /\ Decide(Match("Unmatched", NoBank))
    BY <1>3 DEF Statuses, Unmatched
  <2>2. QED
    BY <1>1, <1>3, <2>1, NothingStep
<1>4. CASE ~Settled(row) /\ \E b \in FreeFor(row) : Decide(Match("Review", b)) /\ Take(b)
  BY <1>1, <1>4, WeakStep
<1>5. QED
  BY <1>2, <1>3, <1>4 DEF ForcedMatch

LEMMA CashStep ==
  ASSUME GivenInv, CashJournalMatch, row \in Rows, sheet' = sheet
  PROVE  MatchesInv'
<1>1. MatchesInv
  BY DEF GivenInv
<1>2. CASE Keep
  BY <1>1, <1>2, KeepStep
<1>3. CASE ~Keep
  <2>1. ~Settled(row) /\ \E b \in FreeFor(row) : Decide(Match("Review", b)) /\ Take(b)
    BY <1>3 DEF CashJournalMatch, CashCandidates
  <2>2. QED
    BY <1>1, <2>1, WeakStep
<1>4. QED
  BY <1>2, <1>3

LEMMA RebuildStep ==
  ASSUME GivenInv, RebuildUsedBanks PROVE MatchesInv'
<1>1. /\ MatchesInv /\ SheetTypeOK /\ matches \in [Rows -> MatchType] /\ used \subseteq Banks
      /\ GivenIsNamed /\ UsedCovers /\ SharedConfirmed /\ BankGivenOnce
  BY DEF GivenInv, MatchesInv
<1>2. sheet' = sheet /\ matches' = matches /\ sheet.named \subseteq Banks
  BY <1>1, FreeNamed DEF RebuildUsedBanks
<1>3. used' \subseteq Banks
  BY <1>1, <1>2 DEF RebuildUsedBanks, Rebuilt
<1>4. UsedCovers'
  BY <1>2 DEF UsedCovers, RebuildUsedBanks, Rebuilt, BankOf
<1>5. GivenIsNamed' /\ SharedConfirmed' /\ BankGivenOnce'
  BY <1>1, <1>2 DEF GivenIsNamed, SharedConfirmed, BankGivenOnce, BankOf, Preserved, Confirmed
<1>6. QED
  BY <1>1, <1>2, <1>3, <1>4, <1>5 DEF MatchesInv, SheetTypeOK

LEMMA GivenInvStep == GivenInv /\ [ReconNext]_rvars => GivenInv'
<1> SUFFICES ASSUME GivenInv, [ReconNext]_rvars PROVE GivenInv'
  OBVIOUS
<1>1. MatchesInv /\ phase \in 1..7 /\ row \in Nat \ {0} /\ NotReached
  BY DEF GivenInv
<1>2. CASE UNCHANGED rvars
  <2>1. Keep /\ sheet' = sheet /\ phase' = phase /\ row' = row
    BY <1>2 DEF rvars, Keep
  <2>2. MatchesInv' /\ NotReached'
    BY <1>1, <2>1, KeepStep DEF NotReached, Keep
  <2>3. QED
    BY <1>1, <2>1, <2>2 DEF GivenInv
<1>3. CASE RebuildUsedBanks
  <2>1. phase = 5 /\ phase' = 6 /\ row' = row
    BY <1>1, <1>3, PhaseNumbers DEF RebuildUsedBanks
  <2>2. QED
    BY <1>1, <1>3, <2>1, RebuildStep DEF GivenInv, NotReached
<1>4. CASE \/ PreserveReference \/ DirectMatch \/ GroupedSettlement
           \/ FuzzyMatch \/ ForcedMatch \/ CashJournalMatch
  <2>1. Advance
    BY <1>4 DEF PreserveReference, DirectMatch, GroupedSettlement, FuzzyMatch,
                ForcedMatch, CashJournalMatch
  <2>2. phase \in 1..6
    BY <1>1, <1>4, PhaseNumbers
    DEF PreserveReference, DirectMatch, GroupedSettlement, FuzzyMatch,
        ForcedMatch, CashJournalMatch
  <2>3. /\ row \in Rows /\ sheet' = sheet
        /\ phase' \in 1..7 /\ row' \in Nat \ {0}
        /\ phase' = 1 => phase = 1
    BY <2>1, <2>2, AdvanceStep
  <2>4. CASE PreserveReference \/ DirectMatch
    BY <2>3, <2>4, DirectSteps DEF GivenInv
  <2>5. CASE \/ GroupedSettlement \/ FuzzyMatch \/ ForcedMatch \/ CashJournalMatch
    <3>1. phase # 1
      BY <1>1, <2>5, PhaseNumbers
      DEF GroupedSettlement, FuzzyMatch, ForcedMatch, CashJournalMatch
    <3>2. NotReached'
      BY <2>3, <3>1 DEF NotReached
    <3>3. MatchesInv'
      BY <2>3, <2>5, GroupedStep, FuzzyStep, ForcedStep, CashStep
    <3>4. QED
      BY <2>3, <3>2, <3>3 DEF GivenInv
  <2>6. QED
    BY <1>4, <2>4, <2>5
<1>5. QED
  BY <1>2, <1>3, <1>4 DEF ReconNext

(* Whatever the sheets say and however many rows they have, no bank row    *)
(* ends up with two ledger rows that do not settle it together.            *)
THEOREM BankRowsGivenOnce == ReconSpec => []BankGivenOnce
<1>1. GivenInv => BankGivenOnce
  BY DEF GivenInv, MatchesInv
<1>2. QED
  BY <1>1, GivenInvInit, GivenInvStep, PTL DEF ReconSpec

(* A row's sure match survives the step: a phase leaves the row alone, or  *)
(* works on rows that are only for review or have no match.                *)
LEMMA FinalStep ==
  ASSUME GivenInv, [ReconNext]_rvars, NEW r \in Rows, Confirmed(r)
  PROVE  matches'[r] = matches[r]
<1>1. MatchesInv /\ matches \in [Rows -> MatchType] /\ phase \in 1..7 /\ NotReached
  BY DEF GivenInv, MatchesInv
<1>2. matches[r] # NoMatch /\ matches[r] # Unmatched /\ matches[r].status = "Matched"
  BY DEF Confirmed, NoMatch, Unmatched, Match
<1>3. ASSUME NEW m, Decide(m), row # r PROVE matches'[r] = matches[r]
  BY <1>1, <1>3 DEF Decide
<1>4. CASE PreserveReference \/ DirectMatch
  <2>1. phase = 1 /\ row \in Nat \ {0} /\ Advance
    BY <1>1, <1>4, PhaseNumbers DEF PreserveReference, DirectMatch, GivenInv
  <2>2. row # r
    BY <1>1, <1>2, <2>1 DEF NotReached, Rows
  <2>3. (\E m : Decide(m)) \/ Keep
    BY <1>4 DEF PreserveReference, DirectMatch
  <2>4. QED
    BY <1>3, <2>2, <2>3 DEF Keep
<1>5. CASE GroupedSettlement
  <2>1. r \notin Groupable
    BY <1>2 DEF Groupable
  <2>2. QED
    BY <1>5, <2>1 DEF GroupedSettlement, Keep
<1>6. CASE FuzzyMatch
  BY <1>2, <1>3, <1>6 DEF FuzzyMatch, Keep
<1>7. CASE ForcedMatch \/ CashJournalMatch
  <2>1. Settled(r)
    BY DEF Settled
  <2>2. Keep \/ (row # r /\ \E m : Decide(m))
    BY <1>7, <2>1 DEF ForcedMatch, CashJournalMatch
  <2>3. QED
    BY <1>3, <2>2 DEF Keep
<1>8. CASE RebuildUsedBanks \/ UNCHANGED rvars
  BY <1>8 DEF RebuildUsedBanks, rvars
<1>9. QED
  BY <1>4, <1>5, <1>6, <1>7, <1>8 DEF ReconNext

(* What the strong phases were sure of, the weaker ones leave, for every   *)
(* number of rows.                                                         *)
THEOREM SureMatchesStay == ReconSpec => ConfirmedIsFinal
<1>1. GivenInv /\ [ReconNext]_rvars =>
        [\A r \in Rows : Confirmed(r) => matches'[r] = matches[r]]_rvars
  BY FinalStep
<1>2. QED
  BY <1>1, GivenInvInit, GivenInvStep, PTL DEF ReconSpec, ConfirmedIsFinal

(* From the rebuild on, usedBanks is what the rows have.                   *)
UsedIsExact == ~sheet.many /\ phase >= 6 => used = Rebuilt

LEMMA UsedIsExactStep ==
  ASSUME GivenInv, UsedIsExact, [ReconNext]_rvars PROVE UsedIsExact'
<1>1. MatchesInv /\ matches \in [Rows -> MatchType] /\ phase \in 1..7
  BY DEF GivenInv, MatchesInv
<1>2. CASE UNCHANGED rvars
  BY <1>2 DEF rvars, UsedIsExact, Rebuilt, BankOf
<1>3. CASE RebuildUsedBanks
  BY <1>3 DEF RebuildUsedBanks, UsedIsExact, Rebuilt, BankOf
<1>4. CASE \/ PreserveReference \/ DirectMatch \/ GroupedSettlement
           \/ FuzzyMatch \/ ForcedMatch
  <2>1. Advance /\ phase \in 1..4
    BY <1>1, <1>4, PhaseNumbers
    DEF PreserveReference, DirectMatch, GroupedSettlement, FuzzyMatch, ForcedMatch
  <2>2. phase' \in 1..5
    BY <2>1 DEF Advance
  <2>3. QED
    BY <2>2 DEF UsedIsExact
<1>5. CASE CashJournalMatch
  <2>1. phase = 6 /\ Advance
    BY <1>1, <1>5, PhaseNumbers DEF CashJournalMatch
  <2>2. row \in Rows /\ sheet' = sheet
    BY <2>1, AdvanceStep
  <2>3. CASE Keep
    BY <2>1, <2>2, <2>3 DEF Keep, UsedIsExact, Rebuilt, BankOf
  <2>4. CASE ~Keep
    <3>1. PICK b \in CashCandidates(row) : Decide(Match("Review", b)) /\ Take(b)
      BY <1>5, <2>4 DEF CashJournalMatch
    <3>2. b \in sheet.named /\ b # NoBank /\ BankOf(row) \in {b, NoBank}
          /\ NoBank \notin sheet.named
      BY <1>1, <3>1, FreeNamed DEF CashCandidates, FreeFor
    <3>3. /\ matches'[row].bank = b
          /\ \A r \in Rows : r # row => matches'[r] = matches[r]
      BY <1>1, <2>2, <3>1 DEF Decide, Match
    <3>4. Rebuilt' = Rebuilt \cup {b}
      BY <2>2, <3>2, <3>3 DEF Rebuilt, BankOf
    <3>5. ~sheet.many => used' = used \cup {b}
      BY <3>1, <3>2 DEF Take
    <3>6. QED
      BY <2>1, <2>2, <3>4, <3>5 DEF UsedIsExact
  <2>5. QED
    BY <2>3, <2>4
<1>6. QED
  BY <1>2, <1>3, <1>4, <1>5 DEF ReconNext

(* The sheet of unmatched bank rows leaves out no row that nothing was     *)
(* given of, and lists none that was given, for every number of rows.      *)
THEOREM UnmatchedSheetExact == ReconSpec => []UnmatchedSheetIsExact
<1>1. ReconInit => UsedIsExact
  BY DEF ReconInit, UsedIsExact
<1>2. GivenInv /\ UsedIsExact => UnmatchedSheetIsExact
  <2> SUFFICES ASSUME GivenInv, UsedIsExact, In("done"), ~sheet.many
               PROVE  UnmatchedBanks \cap sheet.named
                        = sheet.named \ {BankOf(r) : r \in Rows}
    BY DEF UnmatchedSheetIsExact
  <2>1. phase \in 1..7 /\ MatchesInv
    BY DEF GivenInv
  <2>2. phase = 7
    BY <2>1 DEF In, Phases
  <2>3. used = Rebuilt /\ sheet.named \subseteq Banks
    BY <2>1, <2>2, FreeNamed DEF UsedIsExact
  <2>4. QED
    BY <2>3 DEF UnmatchedBanks, Rebuilt
<1>3. QED
  BY <1>1, <1>2, GivenInvInit, GivenInvStep, UsedIsExactStep, PTL DEF ReconSpec
=============================================================================
