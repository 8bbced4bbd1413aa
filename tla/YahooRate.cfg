SPECIFICATION YahooSpec
CONSTANTS
  NumRuns = 2
  NumListed = 2
INVARIANTS
  RateOfThisRun
CHECK_DEADLOCK FALSE
