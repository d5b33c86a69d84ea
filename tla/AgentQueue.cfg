SPECIFICATION Spec
CONSTANTS
  s1 = s1
  s2 = s2
  Absent = Absent
  Tasks = {1, 2, 3}
  DependsOn <- Join
  MayBeEdited = {1, 3}
  Supervisors = {s1, s2}
  MayNeedFix <- OneFix
  MaxIncidents = 1
INVARIANT TypeOK
INVARIANT ReadyHasDependencies
INVARIANT UnblockNotLost
INVARIANT OneLocalRunner
INVARIANT ReportsAreTrue
PROPERTY QueueImplemented
SYMMETRY SupervisorSymmetry
CHECK_DEADLOCK FALSE
