SPECIFICATION FairSpec
CONSTANTS
  Run = {1, 2}
  Forced = {2}
  Delivering = {1}
  Scheduled = {1, 2}
  Title = {1}
  Universe = {{1}}
  MaxDeliver = 2
  MaxFaults = 1
  MaxDay = 2
INVARIANTS
  TypeOK
  EventsAreBacked
  ReportedIsMailed
  PingsAreTrue
PROPERTIES
  LoggedMailIsLast
  UserHears
CHECK_DEADLOCK FALSE
