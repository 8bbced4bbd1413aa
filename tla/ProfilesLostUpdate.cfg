SPECIFICATION ProfilesSpec
CONSTANTS
  Tab = {t1, t2}
  Param = {p0, p1}
  Start = p0
  MaxCalls = 2
INVARIANTS
  SavedOnNewest
CHECK_DEADLOCK FALSE
