SPECIFICATION LiveSpec
CONSTANTS
  root = root
  d1 = d1
  d2 = d2
  d3 = d3
  f1 = f1
  f2 = f2
  f3 = f3
  f4 = f4
  f5 = f5
  f6 = f6
  Dirs = {root, d1, d2, d3}
  Files = {f1, f2, f3, f4, f5, f6}
  Root = root
  Content <- Tree
  KnownTotal = {root, d1}
  PageSize = 2
  MayCancel = TRUE
  MayFail = TRUE
INVARIANTS
  OneDirectoryAtATime
PROPERTIES
  SequentialKeepsPromises
  SequentialWalkEnds
CHECK_DEADLOCK FALSE
