\* Every operation together, PATCHes of several fields, every history of
\* four writes.
SPECIFICATION HSpec
CONSTANTS
  strong = strong
  weak = weak
  gone = gone
  foreign = foreign
  mutoid = mutoid
  spare = spare
  lost = lost
  seize = seize
  None = None
  LastTurningPoint = 2
  Roster <- MCRoster
  Cards = {strong, weak, gone, foreign}
  TeamCards <- MCTeamCards
  WithdrawnCards <- MCWithdrawnCards
  MaxWounds <- MCMaxWounds
  Ploys = {seize}
  Cost <- MCCost
  Kit = {mutoid, spare, lost}
  TeamKit <- MCTeamKit
  WithdrawnKit <- MCWithdrawnKit
  Notes = {0}
  Marks = {0}
  MaxCP = 1
  MaxRecorded = 0
  MaxMoved = 2
  MaxEvents = 4
INVARIANTS
  TypeOK
  UndoNeverStuck
  WoundsWithinCard
  ActivatesOncePerTurn
  EquipmentTakenOnce
PROPERTIES
  LogOnlyGrows
  UndoRestores
\* MaxEvents stops the model where the game would go on.
CHECK_DEADLOCK FALSE
