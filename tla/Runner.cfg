SPECIFICATION RunnerSpec
CONSTANTS
  Absent = Absent
  Blank = Blank
  Malformed = Malformed
  NoValue = NoValue
  FamilyOrder <- SomeOrder
  FamilyAlias <- SomeAliases
  DefaultYear = 2024
  Catalog <- SomeCatalog
  SupportedFamilies = {"ghg_protocol", "defra_desnz"}
  Redact <- SomeRedactions
  Processes = {p1, p2}
  Payloads <- SomePayloads
  Environment <- SomeEnvironment
  Schemas <- SomeSchemas
  BatchesOf <- SomeBatches
  FailuresOf <- SomeFailures
  Limits = {2}
  MaxFailures = 1
  MaxLost = 1
INVARIANT RunnerTypeOK
INVARIANT TablesBeforeCycles
INVARIANT NoCircularWait
INVARIANT HistoryIsWhole
INVARIANT DetailIsWhole
SYMMETRY ProcessSymmetry
CHECK_DEADLOCK FALSE
