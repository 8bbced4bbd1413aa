SPECIFICATION Spec
CONSTANTS
  Run = {1}
  Forced = {}
  Delivering = {1}
  Scheduled = {1}
  Title = {1}
  Universe = {{1}}
  MaxDeliver = 2
  MaxFaults = 1
  MaxDay = 1
INVARIANTS
  AtMostOneMail
CHECK_DEADLOCK FALSE
