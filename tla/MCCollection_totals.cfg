\* Every amount and every cost fits its column.
SPECIFICATION Spec
CONSTANTS
  Requests = {r1, r2, r3}
  r1 = r1
  r2 = r2
  r3 = r3
  Jobs <- MCJobs
  Loads <- MCLoads
  Databases <- MCDatabases
  IntMax = 5
  Overflow = Overflow
  None = None
INVARIANT TotalsAgree
\* The requests end.
CHECK_DEADLOCK FALSE
