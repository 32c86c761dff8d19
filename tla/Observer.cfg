SPECIFICATION Spec
CONSTANTS
  j1 = j1
  j2 = j2
  Jobs = {j1, j2}
  Size <- MCSize
  MaxAttempts = 1
  MaxTicks = 1
  Capacity = 1
SYMMETRY Symmetry
INVARIANTS
  SnapshotCoversSent
  DoneWithinTotal
  MirrorsStats
CHECK_DEADLOCK FALSE
