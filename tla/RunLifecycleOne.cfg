SPECIFICATION FairSpec
CONSTANTS
  NumRuns = 1
  Slot = {1}
  Instance = {i1, i2}
  FetchLimit = 1
  ScoringLimit = 0
  ReportLimit = 0
  Grace = 0
  LastEvent = 1
  MaxEvents = 5
  MaxFaults = 1
INVARIANTS
  TypeOK
  TablesTell
PROPERTIES
  NeverBack
  EveryRunCloses
CHECK_DEADLOCK FALSE
