SPECIFICATION Spec
CONSTANTS
  e1 = e1
  e2 = e2
  ipcc = ipcc
  ghg = ghg
  v1 = v1
  v2 = v2
  Absent = Absent
  Executions = {e1, e2}
  Families = {ipcc, ghg}
  Reusing = {ipcc}
  Editions = {v1, v2}
  Requests <- SomeRequests
  MaxDirectories = 1
INVARIANT TypeOK
INVARIANT DownloadedStays
INVARIANT ResultsAreValid
PROPERTY OnlyOverwriteReplaces
SYMMETRY ExecutionSymmetry
CHECK_DEADLOCK FALSE
