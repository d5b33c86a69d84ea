-------------------------------- MODULE RunGate --------------------------------
(***************************************************************************)
(* What the scheduled-ingestion host promises about runs: they are         *)
(* numbered from 1 in the order they begin, at most one is active, and     *)
(* none begins once the gate is closed; the active one may still end.      *)
(***************************************************************************)
EXTENDS Naturals

CONSTANT MaxRuns   \* bound on the number of runs

VARIABLES
  active,   \* numbers of the active runs
  begun,    \* how many runs have begun
  closed    \* no further run may begin

gateVars == <<active, begun, closed>>

Init ==
  /\ active = {}
  /\ begun = 0
  /\ closed = FALSE

Begin ==
  /\ ~closed
  /\ active = {}
  /\ begun < MaxRuns
  /\ begun' = begun + 1
  /\ active' = {begun + 1}
  /\ UNCHANGED closed

End ==
  /\ active # {}
  /\ active' = {}
  /\ UNCHANGED <<begun, closed>>

Close ==
  /\ closed' = TRUE
  /\ UNCHANGED <<active, begun>>

Next == Begin \/ End \/ Close

Spec == Init /\ [][Next]_gateVars
===============================================================================
