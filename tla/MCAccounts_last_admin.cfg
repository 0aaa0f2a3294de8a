\* Two requests at once.
SPECIFICATION Spec
CONSTANTS
  Requests = {r1, r2}
  Jobs <- MCJobs
  Tables <- MCTables
  ann = ann
  bob = bob
  cy = cy
  None = None
SYMMETRY MCRequestSymmetry
PROPERTIES
  AnAdminRemains
\* The requests end.
CHECK_DEADLOCK FALSE
