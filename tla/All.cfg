SPECIFICATION Spec
CONSTANTS
  w1 = w1
  w2 = w2
  d = d
  f1 = f1
  f2 = f2
  f3 = f3
  f4 = f4
  b = b
  Workers = {w1, w2}
  Others = {d}
  Files = {f1, f2, f3, f4}
  BadFiles = {b}
  Capacity = 1
  Observed = TRUE
SYMMETRY Symmetry
INVARIANTS
  EveryFileAccounted
  FailuresMatch
  ResultIsFinal
PROPERTIES
  ResultIsStable
CHECK_DEADLOCK FALSE
