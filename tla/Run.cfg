SPECIFICATION LiveRunSpec
CONSTANTS
  w1 = w1
  w2 = w2
  l1 = l1
  l2 = l2
  root = root
  sub = sub
  f1 = f1
  f2 = f2
  b = b
  Workers = {w1, w2}
  Downloaders = {l1, l2}
  Dirs = {root, sub}
  Files = {f1, f2, b}
  BadFiles = {b}
  Root = root
  Content <- Tree
  KnownTotal = {root}
  PageSize = 2
  ItemBuffer = 1
  Capacity = 1
  Observed = TRUE
  MayCancel = TRUE
  MayFail = TRUE
INVARIANTS
  ErrorsSurface
  ResultMatchesWalk
  NothingLeft
PROPERTIES
  ImplementsParts
  RunEnds
CHECK_DEADLOCK FALSE
