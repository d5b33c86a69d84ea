---------------------- MODULE MCOrchestrationContracts ----------------------
(***************************************************************************)
(* An instance of OrchestrationContracts for TLC.  In the code, as here,   *)
(* the key of a source is its family.                                      *)
(***************************************************************************)
EXTENDS OrchestrationContracts, TLC

CONSTANTS s1, s2, r1, r2

SomeDescriptors == [key \in {"ghg", "defra"} |-> [family |-> key, kind |-> "discovery"]]

\* The default adapters; one adapter renamed and the other family without one.
SomeRegistries ==
  {[f \in {"ghg", "defra"} |-> [parser |-> f, format |-> "discovery"]],
   [f \in {"ghg"} |-> [parser |-> "ghg_v2", format |-> "discovery"]]}

\* What discovery declares, with a second document of the first source; a candidate of
\* another kind of reference.
SomeCatalogues ==
  LET ghg == DeclaredCandidate("ghg") IN
  {<<ghg, DeclaredCandidate("defra"), [ghg EXCEPT !.id = "ghg_annex"]>>,
   <<[ghg EXCEPT !.kind = "direct"]>>}

\* Nothing; the first candidate with a size that is not a number; both documents of the
\* first source under the ids they would be given, but from elsewhere.
SomeBatches(catalogue) ==
  LET Of(n, candidate, wrong) ==
        ArtifactFrom(candidate, <<n, candidate.key>>, <<"file", n>>, {}, wrong)
  IN {<<>>, <<Of(1, Head(catalogue), {"size_bytes"})>>,
      <<Of(1, Head(catalogue), {}), Of(2, Last(catalogue), {})>>}

SomeIssues == {<<[severity |-> "warning", bad |-> {}]>>}

Symmetry == Permutations(Slots) \cup Permutations(RunIds)
=============================================================================
