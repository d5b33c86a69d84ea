SPECIFICATION Phase1Spec
CONSTANTS
  ghg = ghg
  defra = defra
  r1 = r1
  r2 = r2
  Absent = Absent
  Families = {ghg, defra}
  PerFactor = {ghg}
  RunIds = {r1, r2}
  Requests <- SomeRequests
  Alias <- SomeAliases
  Content <- SomeContent
  RowsOf <- SomeRows
  MaxRuns = 2
  MaxFailures = 1
  MaxLost = 1
INVARIANT Phase1TypeOK
INVARIANT CompletedIsStored
INVARIANT ProvenanceHolds
INVARIANT BatchIsWhole
INVARIANT CountsAddUp
SYMMETRY RunIdSymmetry
CHECK_DEADLOCK FALSE
