--------------------------- MODULE Reconciliation ---------------------------
(***************************************************************************)
(* ReconciliationService.reconcileWithReport: the rows of a ledger sheet   *)
(* (IST) are given the references of the rows of a bank sheet, in phases   *)
(* from strong to weak evidence.  usedBanks keeps a bank row from being    *)
(* given twice; at the end it decides which bank rows are listed as        *)
(* unmatched.  What the texts, amounts, dates and scores of two rows say   *)
(* of each other, and whether a row has them, is a choice of the model.    *)
(***************************************************************************)
EXTENDS Integers, FiniteSets, FiniteSetsExt

CONSTANTS
  Last,     \* the rows of the ledger sheet are 1..Last
  Banks,    \* the rows of the bank sheet
  NoBank

ASSUME ReconciliationAssumption == Last \in Nat /\ NoBank \notin Banks

VARIABLES
  sheet,   \* what the sheets and the options say
  matches, \* the match of a row, or NoMatch
  used,    \* usedBanks
  phase,   \* the phase, and the row it has come to
  row

rvars == <<sheet, matches, used, phase, row>>

Rows == 1..Last
Phases == <<"direct", "grouped", "fuzzy", "forced", "rebuild", "cash", "done">>
Kinds == {"preserved", "petty", "cash", "plain"}

(* shared: the match settles several rows together.                        *)
Match(status, bank) == [status |-> status, bank |-> bank, shared |-> FALSE]
NoMatch == Match("none", NoBank)
Unmatched == Match("Unmatched", NoBank)

(* kind: a row with a valid payment reference of its own, a row of a cash  *)
(* journal on the account of a safe or on another, or any other row.       *)
(* named: bank rows that have a reference; many: options.allowManyToOne.   *)
ReconInit ==
  /\ sheet \in [kind : [Rows -> Kinds], named : SUBSET Banks,
                many : BOOLEAN, forceAll : BOOLEAN]
  /\ matches = [r \in Rows |-> NoMatch]
  /\ used = {} /\ phase = 1 /\ row = 1

In(p) == Phases[phase] = p
Is(kind) == sheet.kind[row] = kind
BankOf(r) == matches[r].bank
Preserved(r) == sheet.kind[r] = "preserved"
Confirmed(r) == matches[r].status = "Matched" /\ BankOf(r) \in sheet.named

(* The bank rows a phase may still give; a weak phase may also confirm the *)
(* one the row has.                                                        *)
Free == IF sheet.many THEN sheet.named ELSE sheet.named \ used
FreeFor(r) == Free \cup ({BankOf(r)} \cap sheet.named)

Take(b) == used' = IF sheet.many THEN used ELSE used \cup ({b} \ {NoBank})
Decide(m) == matches' = [matches EXCEPT ![row] = m]
Keep == UNCHANGED <<matches, used>>

(* The next row of the phase, or the next phase.                           *)
Advance ==
  /\ \/ row < Last /\ row' = row + 1 /\ phase' = phase
     \/ row = Last /\ row' = 1 /\ phase' = phase + 1
  /\ UNCHANGED sheet

-----------------------------------------------------------------------------
(* Phase 1.  A reference that is already there stays, whether or not a bank*)
(* row with it is found, and whoever has been given that bank row.         *)
PreserveReference ==
  /\ In("direct") /\ Is("preserved")
  /\ \E b \in Banks \cup {NoBank} :
       Decide(Match(IF b = NoBank THEN "Review" ELSE "Matched", b)) /\ Take(b)
  /\ Advance

(* Mutant: the bank rows that are taken are not filtered out.              *)
AvailableAll(found) == found \cap sheet.named
(* directMatch: the bank rows the texts of the row refer to.               *)
Available(found) == found \cap Free

DirectMatch ==
  /\ In("direct") /\ ~Is("preserved")
  /\ \E found \in SUBSET Banks :
       \/ \E b \in Available(found), status \in {"Matched", "Review"} :
            Decide(Match(status, b)) /\ Take(b)
       \/ /\ found # {} /\ Available(found) = {}
          /\ Decide(Match("Review", NoBank)) /\ UNCHANGED used
       \/ found = {} /\ Keep
  /\ Advance

-----------------------------------------------------------------------------
(* Phase 2.  Rows of one day, account, direction and client whose amounts  *)
(* add up to one bank row.  Only rows left for review by phase 1 take part.*)
Groupable == {r \in Rows : ~Preserved(r) /\ matches[r].status = "Review"}

GroupedSettlement ==
  /\ In("grouped")
  /\ \/ \E members \in SUBSET Groupable, b \in Free :
          /\ Cardinality(members) >= 2 /\ row = Min(members)
          /\ matches' = [r \in Rows |->
               IF r \in members THEN [Match("Matched", b) EXCEPT !.shared = TRUE]
               ELSE matches[r]]
          /\ used' = used \cup {b}
     \/ Keep
  /\ Advance

(* Phase 3.  The best candidate by score, or by the wider fallback, for the*)
(* rows without a match; a bank row is taken even when many may have it.   *)
FuzzyMatch ==
  /\ In("fuzzy")
  /\ \/ matches[row] # NoMatch /\ Keep
     \/ /\ matches[row] = NoMatch
        /\ \/ \E b \in Free, status \in {"Matched", "Review"} :
                Decide(Match(status, b)) /\ used' = used \cup {b}
           \/ Decide(Unmatched) /\ UNCHANGED used
  /\ Advance

-----------------------------------------------------------------------------
(* Mutant: rows of a sure match are matched again.                         *)
SettledPreserved(r) == Preserved(r)
Settled(r) == Preserved(r) \/ Confirmed(r)

(* applyExhaustiveFallbackMatches, with options.forceAll: any bank row with*)
(* some evidence; a row that had one for review may change or lose it.     *)
ForcedMatch ==
  /\ In("forced")
  /\ \/ (~sheet.forceAll \/ Settled(row) \/ Is("petty")) /\ Keep
     \/ /\ sheet.forceAll /\ ~Settled(row) /\ ~Is("petty")
        /\ \/ Decide(Unmatched) /\ UNCHANGED used
           \/ \E b \in FreeFor(row) : Decide(Match("Review", b)) /\ Take(b)
  /\ Advance

(* Mutant: the bank rows of the matches are added, none is released.       *)
RebuiltAdded == used \cup ({BankOf(r) : r \in Rows} \ {NoBank})
Rebuilt == {BankOf(r) : r \in Rows} \cap sheet.named

RebuildUsedBanks ==
  /\ In("rebuild")
  /\ used' = IF sheet.many THEN used ELSE Rebuilt
  /\ phase' = phase + 1
  /\ UNCHANGED <<sheet, matches, row>>

(* The only cash-like bank row; what a row has already is not exchanged.   *)
CashCandidates(r) == {b \in FreeFor(r) : BankOf(r) \in {b, NoBank}}

(* applyCashJournalMatches, for the rows of a cash journal.                *)
CashJournalMatch ==
  /\ In("cash")
  /\ \/ Keep
     \/ /\ ~Settled(row) /\ (Is("cash") \/ Is("petty"))
        /\ \E b \in CashCandidates(row) : Decide(Match("Review", b)) /\ Take(b)
  /\ Advance

UnmatchedBanks == Banks \ used

ReconNext ==
  \/ PreserveReference \/ DirectMatch \/ GroupedSettlement \/ FuzzyMatch
  \/ ForcedMatch \/ RebuildUsedBanks \/ CashJournalMatch

ReconSpec == ReconInit /\ [][ReconNext]_rvars

-----------------------------------------------------------------------------
(* Unless many rows may share a bank row, no bank row is given to two rows *)
(* that do not settle it together; except that a reference a row had before*)
(* is preserved even if its bank row has been given to another.            *)
BankGivenOnce ==
  ~sheet.many =>
    \A r, s \in Rows :
      /\ r # s /\ ~Preserved(r) /\ ~Preserved(s)
      /\ BankOf(r) = BankOf(s) /\ BankOf(r) # NoBank
      => matches[r].shared /\ matches[s].shared

(* The bank rows listed as unmatched are those no row was given, although  *)
(* the phases take rows back and give others; unless many may share one,   *)
(* and except bank rows without a reference.                               *)
UnmatchedSheetIsExact ==
  In("done") /\ ~sheet.many =>
    UnmatchedBanks \cap sheet.named = sheet.named \ {BankOf(r) : r \in Rows}

(* A sure match to a bank row with a reference is final: no weaker phase   *)
(* changes it or takes it back.                                            *)
ConfirmedIsFinal ==
  [][\A r \in Rows : Confirmed(r) => matches'[r] = matches[r]]_rvars
=============================================================================
