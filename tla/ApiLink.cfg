SPECIFICATION Spec
CONSTANTS
  MaxAttempts = 2
  Statuses = {200, 404, 429}
  Hints = {1}
  Jitters = {75, 124}
  NoHint = NoHint
  Settings = {0}
  MaxSetters = 0
  Selections <- MCSelections
  KeyTexts <- MCKeyTexts
  ItemPaths <- MCItemPaths
  MaxPath = 1
INVARIANTS
  LinkCanBeHad
CHECK_DEADLOCK FALSE
