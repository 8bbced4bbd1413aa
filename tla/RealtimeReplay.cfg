SPECIFICATION RealtimeFairSpec
CONSTANTS
  MaxSeq = 3
  QueueSize = 2
  ReplayLimit = 3
  MaxFaults = 1
PROPERTIES
  ResumeSucceeds
CHECK_DEADLOCK FALSE
