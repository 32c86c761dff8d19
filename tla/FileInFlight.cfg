SPECIFICATION Spec
CONSTANTS
  v1 = v1
  v2 = v2
  Versions = {v1, v2}
  Mixed = Mixed
  Absent = Absent
  Size <- MCSize
  Size1 = 1
  Size2 = 2
  MaxAttempts = 2
  MaxLinkAttempts = 2
  Observed = TRUE
  Windows = FALSE
  OddStatus = TRUE
  Width = 8
  MaxRuns = 1
  MaxUpdates = 0
INVARIANTS
  InFlightSettles
CHECK_DEADLOCK FALSE
