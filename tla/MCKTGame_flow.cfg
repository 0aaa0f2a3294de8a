\* The game's own row: phases, status, command points and ploys, to the end of
\* the second turning point and back, with one operative and one piece.
SPECIFICATION Spec
CONSTANTS
  strong = strong
  weak = weak
  gone = gone
  foreign = foreign
  mutoid = mutoid
  spare = spare
  lost = lost
  seize = seize
  None = None
  LastTurningPoint = 2
  Roster <- MCFrail
  Cards = {weak, gone}
  TeamCards <- MCTeamCards
  WithdrawnCards <- MCWithdrawnCards
  MaxWounds <- MCMaxWounds
  Ploys = {seize}
  Cost <- MCCost
  Kit = {mutoid}
  TeamKit <- MCTeamKit
  WithdrawnKit <- MCWithdrawnKit
  Notes = {0}
  Marks = {0}
  MaxCP = 1
  MaxRecorded = 1
  MaxMoved = 1
  MaxEvents = 5
INVARIANTS
  FinishedReopens
  ClockCountsAdvances
  UndoIsNested
  UndoNamesItsEvent
PROPERTIES
  FinishedIsFrozen
\* MaxEvents stops the model where the game would go on.
CHECK_DEADLOCK FALSE
