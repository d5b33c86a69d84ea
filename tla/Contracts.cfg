SPECIFICATION ContractsSpec
CONSTANTS
  s1 = s1
  s2 = s2
  r1 = r1
  r2 = r2
  Blank = Blank
  NoChain = NoChain
  Descriptors <- SomeDescriptors
  Slots = {s1, s2}
  Registries <- SomeRegistries
  RunIds = {r1, r2}
  Catalogues <- SomeCatalogues
  Batches <- SomeBatches
  RunIssues <- SomeIssues
  MaxReplacements = 1
INVARIANT AcceptedIsSound
INVARIANT BuiltIsAccepted
INVARIANT AcceptedRowsAreSound
SYMMETRY Symmetry
CHECK_DEADLOCK FALSE
