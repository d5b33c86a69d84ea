SPECIFICATION Spec
CONSTANTS
  defra = defra
  ghg = ghg
  r1 = r1
  r2 = r2
  good = good
  newer = newer
  bad = bad
  empty = empty
  Absent = Absent
  Torn = Torn
  Runners = {r1}
  Families = {defra}
  Position <- PositionDefraFirst
  LinkFamilies = {defra}
  EmptyBatchFamilies = {defra}
  InitialYear = 1
  LastYear = 1
  LegacyLatest <- NoLegacy
  Contents = {good, empty}
  KindOf <- Kind
  Daemon = FALSE
INVARIANT RecordedHasFactorsEveryFamily
