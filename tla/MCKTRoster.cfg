\* Three requests of every kind.
SPECIFICATION Spec
CONSTANTS
  Requests = {r1, r2, r3}
  r1 = r1
  r2 = r2
  r3 = r3
  me = me
  you = you
  scout = scout
  foreign = foreign
  Jobs <- MCJobs
  Databases <- MCDatabases
  Cards = {scout, foreign}
  Fieldable = {scout}
  Rank <- MCRank
  None = None
INVARIANTS
  TypeOK
  NamesUnique
  ReferencesResolve
  DeletionYieldsOnlyToGames
PROPERTIES
  UpdatesKeepEachOther
\* The requests end.
CHECK_DEADLOCK FALSE
