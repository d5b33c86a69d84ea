--------------------------- MODULE MCAgentDispatch ---------------------------
(***************************************************************************)
(* Instances of AgentDispatch for TLC.                                     *)
(***************************************************************************)
EXTENDS AgentDispatch, TLC

CONSTANTS s1, s2

\* Task 3 waits for tasks 1 and 2.
Join == [t \in Tasks |-> IF t = 3 THEN {1, 2} ELSE {}]

\* Only the local pull request of task 1 may get a fix request.
OneFix == {<<1, "local">>}

SupervisorSymmetry == Permutations(Supervisors)
=============================================================================
