SPECIFICATION Spec
CONSTANTS
  defra = defra
  ghg = ghg
  r1 = r1
  r2 = r2
  good = good
  newer = newer
  bad = bad
  empty = empty
  Absent = Absent
  Torn = Torn
  Runners = {r1, r2}
  Families = {defra}
  Position <- PositionDefraFirst
  LinkFamilies = {}
  EmptyBatchFamilies = {}
  InitialYear = 1
  LastYear = 3
  LegacyLatest <- LegacyDefra
  Contents = {good}
  KindOf <- Kind
  Daemon = TRUE
SYMMETRY RunnerSymmetry
INVARIANT LedgerContiguous
INVARIANT RecordedHasFactors
INVARIANT FactorsWithinNextYear
INVARIANT HistoryIsTrue
PROPERTY LedgerImplemented
