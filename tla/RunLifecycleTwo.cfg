SPECIFICATION Spec
CONSTANTS
  NumRuns = 2
  Slot = {1}
  Instance = {i1, i2}
  FetchLimit = 1
  ScoringLimit = 0
  ReportLimit = 0
  Grace = 0
  LastEvent = 1
  MaxEvents = 2
  MaxFaults = 1
INVARIANTS
  OneTimeout
  OneFetchAtATime
PROPERTIES
  BatchClosesItsRuns
CHECK_DEADLOCK FALSE
