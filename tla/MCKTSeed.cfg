\* Three seeds, one after the other; a page and a battle read meanwhile.
SPECIFICATION Spec
CONSTANTS
  Nobody = Nobody
  None = None
  Teams <- MCTeams
  Payloads <- MCPayloads
  Rostered <- MCRostered
  RosterTeam <- Raveners
  MaxSeeds = 3
INVARIANTS
  TypeOK
  ListedIffServed
  ReportIsTruthful
  EveryEntryLands
  PageIsOfItsTime
  CardsComeWhole
  BattleFieldsTheRoster
PROPERTIES
  CatalogIsWhatWasPublished
\* The seeds end.
CHECK_DEADLOCK FALSE
