SPECIFICATION LiveSpec
CONSTANTS
  w1 = w1
  w2 = w2
  root = root
  sub = sub
  f1 = f1
  f2 = f2
  f3 = f3
  f4 = f4
  Workers = {w1, w2}
  Dirs = {root, sub}
  Files = {f1, f2, f3, f4}
  Root = root
  Content <- Both
  KnownTotal = {root}
  PageSize = 2
  ItemBuffer = 1
  Observed = TRUE
  MayCancel = TRUE
  MayFail = TRUE
INVARIANTS
  TypeOK
  PendingExact
  NothingAfterClose
  FinalCount
PROPERTIES
  KeepsPromises
  WalkEnds
CHECK_DEADLOCK FALSE
