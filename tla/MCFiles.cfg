SPECIFICATION Spec
CONSTANTS
  w1 = w1
  w2 = w2
  r1 = r1
  r2 = r2
  c1 = c1
  c2 = c2
  Workers = {w1, w2}
  Requests = {r1, r2}
  Contents = {c1, c2}
  Carries <- Uploads
  Limit = 2
  Freezing = TRUE
  Free = Free
  Dead = Dead
  MaxName = 3
  MaxFaults = 1
SYMMETRY Symmetric
INVARIANTS
  FTypeOK
  RowsKeepTheirFiles
  FinishedDeletionsAreDone
  OrphansAreExplained
  EvidenceWithinLimits
  UploadsOutliveFailures
PROPERTIES
  FrozenReportIsCurrent
  ImplementsFileStore
CHECK_DEADLOCK FALSE
