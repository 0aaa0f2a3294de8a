\* Three requests at once, none of them a deletion.
SPECIFICATION Spec
CONSTANTS
  Requests = {r1, r2, r3}
  Jobs <- MCPlays
  Histories <- MCHistories
  Operatives = {1}
  Orders <- MCInOrder
  Finished = Finished
  None = None
SYMMETRY MCRequestSymmetry
INVARIANTS
  TypeOK
  VersionVouchesForRows
PROPERTIES
  OneAtATime
\* The requests end.
CHECK_DEADLOCK FALSE
