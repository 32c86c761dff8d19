SPECIFICATION LiveSpec
CONSTANTS
  MaxAttempts = 3
  Statuses = {200, 404, 429}
  Hints = {100}
  Jitters = {75, 124}
  NoHint = NoHint
  Settings = {0}
  MaxSetters = 1
  Selections <- MCSelections
  KeyTexts <- MCKeyTexts
  ItemPaths <- MCItemPaths
  MaxPath = 3
INVARIANTS
  TypeOK
  JobsStayInside
  CleanNamesKept
  DefaultFieldsSuffice
  NoFieldLost
  KeyReadAsWritten
  ResultIsCurrent
PROPERTIES
  ServerIsHeard
  NothingSentAfterCancel
  RequestEnds
CHECK_DEADLOCK FALSE
