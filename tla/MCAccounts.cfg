\* Three requests at once.
SPECIFICATION Spec
CONSTANTS
  Requests = {r1, r2, r3}
  Jobs <- MCJobs
  Tables <- MCTables
  ann = ann
  bob = bob
  cy = cy
  None = None
SYMMETRY MCRequestSymmetry
INVARIANTS
  TypeOK
  NamesUnique
PROPERTIES
  OnlyStaleChecksMatter
\* The requests end.
CHECK_DEADLOCK FALSE
