SPECIFICATION Spec
CONSTANTS
  NumRuns = 1
  Slot = {}
  Instance = {i1}
  FetchLimit = 1
  ScoringLimit = 1
  ReportLimit = 0
  Grace = 0
  LastEvent = 2
  MaxEvents = 6
  MaxFaults = 0
PROPERTIES
  WatchdogSparesResults
CHECK_DEADLOCK FALSE
