\* A request alone.
SPECIFICATION Spec
CONSTANTS
  Requests = {r1}
  Jobs <- MCJobs
  Histories <- MCUndoneHistories
  Operatives = {1}
  Orders <- MCAnyOrder
  Finished = Finished
  None = None
INVARIANTS
  DeletionTakesTheWholeGame
\* The requests end.
CHECK_DEADLOCK FALSE
