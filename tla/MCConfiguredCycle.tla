--------------------------- MODULE MCConfiguredCycle ---------------------------
(***************************************************************************)
(* Instances of ConfiguredCycle for TLC.  Families: defra links through a   *)
(* publication page and may hand over an empty batch; ghg does neither.     *)
(***************************************************************************)
EXTENDS ConfiguredCycle, TLC

CONSTANTS defra, ghg, r1, r2, good, newer, bad, empty

\* Two orders of the families in the configuration.
PositionGhgFirst == [f \in Families |-> IF f = ghg THEN 1 ELSE 2]
PositionDefraFirst == [f \in Families |-> IF f = defra THEN 1 ELSE 2]

\* No family has a year state under the legacy key.
NoLegacy == [f \in Families |-> 0]

\* defra ingested the first year before its key was renamed.
LegacyDefra == [f \in Families |-> IF f = defra THEN InitialYear ELSE 0]

\* What each artifact is: two editions of a valid one, a broken one, one with no row.
Kind ==
  [c \in Contents |-> CASE c \in {good, newer} -> "valid"
                        [] c = bad             -> "malformed"
                        [] c = empty           -> "header_only"]

\* Runners are interchangeable.
RunnerSymmetry == Permutations(Runners)
===============================================================================
