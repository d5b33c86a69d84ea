------------------------------ MODULE YearLedger ------------------------------
(***************************************************************************)
(* What the configured ingestion cycle promises about the year state of    *)
(* each source family, with no word on how a cycle is run.                 *)
(*                                                                         *)
(* A family's ledger is the set of years recorded as ingested.  It starts  *)
(* empty and grows by exactly the next year: no gap, no skip, no removal.  *)
(* Factor rows are committed for at most the next year, and the ledger     *)
(* advances to a year whose rows are committed -- except for a family      *)
(* whose parser may hand over an empty batch (EmptyBatchFamilies).         *)
(***************************************************************************)
EXTENDS Naturals

CONSTANTS
  Families,            \* the source families
  EmptyBatchFamilies,  \* those whose artifact may yield no row at all
  FirstYear,           \* [Families -> Nat]: the first year each one records
  LastYear             \* the last year any artifact exists for (a model bound)

VARIABLES
  ledger,   \* [Families -> SUBSET Nat]: the recorded years
  stored    \* <<family, year>> pairs with committed factor rows

ledgerVars == <<ledger, stored>>

\* y is the year that family f ingests next.
IsNextYear(f, y) ==
  /\ y \in FirstYear[f]..LastYear
  /\ ledger[f] = FirstYear[f]..(y - 1)

Init ==
  /\ ledger = [f \in Families |-> {}]
  /\ stored = {}

\* Rows are committed for the next year, or again for a year already recorded.
Store(f, y) ==
  /\ IsNextYear(f, y) \/ y \in ledger[f]
  /\ stored' = stored \cup {<<f, y>>}
  /\ UNCHANGED ledger

\* The next year is recorded, once its rows are there.
Advance(f, y) ==
  /\ IsNextYear(f, y)
  /\ <<f, y>> \in stored \/ f \in EmptyBatchFamilies
  /\ ledger' = [ledger EXCEPT ![f] = @ \cup {y}]
  /\ UNCHANGED stored

Next == \E f \in Families : \E y \in FirstYear[f]..LastYear : Store(f, y) \/ Advance(f, y)

Spec == Init /\ [][Next]_ledgerVars
===============================================================================
