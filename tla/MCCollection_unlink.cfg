\* A weapon and a unit, linked and unlinked by three requests.
SPECIFICATION Spec
CONSTANTS
  Requests = {r1, r2, r3}
  r1 = r1
  r2 = r2
  r3 = r3
  Jobs <- MCJobs
  Loads <- MCLinkLoads
  Databases <- MCDatabases
  IntMax = 5
  Overflow = Overflow
  None = None
INVARIANT UnlinkIsIdempotent
\* The requests end.
CHECK_DEADLOCK FALSE
