\* Two requests at once, deletions among them.
SPECIFICATION FairSpec
CONSTANTS
  Requests = {r1, r2}
  Jobs <- MCJobs
  Histories <- MCUndoneHistories
  Operatives = {1}
  Orders <- MCAnyOrder
  Finished = Finished
  None = None
INVARIANTS
  OnlyDeletionDeadlocks
PROPERTIES
  OneAtATime
  EveryRequestEnds
\* The requests end.
CHECK_DEADLOCK FALSE
