-------------------------- MODULE MCPhase1Ingestion --------------------------
(***************************************************************************)
(* An instance of Phase1Ingestion for TLC.                                 *)
(***************************************************************************)
EXTENDS Phase1Ingestion, TLC

CONSTANTS ghg, defra, r1, r2

Artifact(name, uri, sum) == [name |-> name, uri |-> uri, sum |-> sum]

Row(family, artifact, number, factor, unit, value) ==
  [family |-> family, uri |-> artifact.uri, sum |-> artifact.sum, number |-> number,
   factor |-> factor, unit |-> unit, qualifiers |-> <<>>, value |-> value, year |-> 2024,
   version |-> "v1", versionYear |-> Absent]

G1 == Artifact("g", "g.xlsx", 1)
G2 == Artifact("g", "g.xlsx", 2)
G3 == Artifact("g", "g.xlsx", 3)
D1 == Artifact("d", "d.xlsx", 1)
D2 == Artifact("d", "d.xlsx", 2)
D3 == Artifact("e", "e.xlsx", 1)

\* A factor that is given another value, a factor that is added and a factor in
\* two units; an artifact, two artifacts at once, and an artifact without rows.
SomeContent ==
  (ghg :> <<<<G1>>, <<G2, G3>>>>)
    @@ (defra :> <<<<D1>>, <<D2, D1>>, <<D3>>>>)
SomeRows ==
  (G1 :> {Row(ghg, G1, 1, "x", "kg", 1)})
    @@ (G2 :> {Row(ghg, G2, 1, "x", "kg", 2), Row(ghg, G2, 2, "y", "kg", 1)})
    @@ (G3 :> {Row(ghg, G3, 1, "z", "kg", 1), Row(ghg, G3, 2, "z", "t", 1)})
    @@ (D1 :> {Row(defra, D1, 1, "p", "kg", 1)})
    @@ (D2 :> {Row(defra, D2, 1, "p", "kg", 2), Row(defra, D2, 2, "q", "kg", 1)})
    @@ (D3 :> {})

SomeAliases ==
  ("ghg" :> ghg) @@ ("ghg_protocol" :> ghg) @@ ("desnz" :> defra) @@ ("defra_desnz" :> defra)

Request(names) ==
  [names |-> names, mode |-> "sequential", parallelism |-> 1, runtimeEnabled |-> TRUE,
   tablesMissing |-> FALSE]

\* A selection that names a family twice, and one that cannot be executed.
SomeRequests ==
  {Request(<<"ghg", "desnz", "ghg_protocol">>),
   [Request(<<"ghg", "epa">>) EXCEPT !.tablesMissing = TRUE]}

RunIdSymmetry == Permutations(RunIds)
===============================================================================
