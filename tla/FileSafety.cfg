SPECIFICATION Spec
CONSTANTS
  v1 = v1
  v2 = v2
  Versions = {v1, v2}
  Mixed = Mixed
  Absent = Absent
  Size <- MCSize
  Size1 = 2
  Size2 = 2
  MaxAttempts = 2
  MaxLinkAttempts = 2
  Observed = TRUE
  Windows = TRUE
  OddStatus = TRUE
  Width = 8
  MaxRuns = 2
  MaxUpdates = 1
INVARIANTS
  TypeOK
  OkMeansThere
  ProgressMatchesPart
  FinalsMatch
PROPERTIES
  InstalledOnlyVerified
  KeepsGoodBytes
CHECK_DEADLOCK FALSE
