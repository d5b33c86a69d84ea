SPECIFICATION Spec
CONSTANTS
  Absent = Absent
  Families = {"ghg_protocol", "ipcc_efdb", "defra_desnz"}
  PerFactor = {"ghg_protocol", "ipcc_efdb"}
  FilesOf <- SomeFilesOf
  LabelOf <- NoLabel
  Places = {"a", "b"}
  InitialYear = 2024
  LastYear = 2024
  MaxChanges = 1
INVARIANT ConflictsAreRefused
CHECK_DEADLOCK FALSE
