SPECIFICATION FairSpec
CONSTANTS
  t1 = t1
  t2 = t2
  t3 = t3
  Threads = {t1, t2, t3}
  ConfigValid = TRUE
  FailOnMissing = TRUE
  MaxRuns = 3
INVARIANT TypeOK
INVARIANT GuardIsExact
INVARIANT ShutdownStatus
PROPERTY GateImplemented
PROPERTY ShutdownStops
