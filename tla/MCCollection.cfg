\* Three requests of every kind.
SPECIFICATION Spec
CONSTANTS
  Requests = {r1, r2, r3}
  r1 = r1
  r2 = r2
  r3 = r3
  Jobs <- MCJobs
  Loads <- MCLoads
  Databases <- MCDatabases
  IntMax = 5
  Overflow = Overflow
  None = None
INVARIANTS
  TypeOK
  ReferencesResolve
  ShortfallIsExact
  DeletionsYieldToOthers
  RingsAreOfDeletions
PROPERTIES
  CommitsAreSteps
\* The requests end.
CHECK_DEADLOCK FALSE
