SPECIFICATION LiveSpec
CONSTANTS
  v1 = v1
  v2 = v2
  Versions = {v1, v2}
  Mixed = Mixed
  Absent = Absent
  Size <- MCSize
  Size1 = 3
  Size2 = 2
  MaxAttempts = 2
  MaxLinkAttempts = 2
  Observed = FALSE
  Windows = FALSE
  OddStatus = FALSE
  Width = 8
  MaxRuns = 2
  MaxUpdates = 1
PROPERTIES
  FaithfulWhenUnchanged
  Terminates
CHECK_DEADLOCK FALSE
