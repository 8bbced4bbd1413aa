SPECIFICATION FairSpec
CONSTANTS
  m1 = m1  m2 = m2
  e1 = e1
  Message <- MCTwoMessages
  Event = {e1}
  EventOf <- MCTwoEventOf
  Worker = {w1, w2}
  Part = {1}
  MaxDeliver = 3
  MaxFaults = 2
  KeepAlive = TRUE
INVARIANTS
  FollowUpsBeforeAck
PROPERTIES
  EventuallySent
CHECK_DEADLOCK FALSE
