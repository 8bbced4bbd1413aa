SPECIFICATION Spec
CONSTANTS
  m1 = m1  m2 = m2
  e1 = e1
  Message <- MCOneMessage
  Event = {e1}
  EventOf <- MCOneEventOf
  Worker = {w1, w2}
  Part = {1}
  MaxDeliver = 2
  MaxFaults = 0
  KeepAlive = FALSE
INVARIANTS
  FollowUpsBeforeAck
CHECK_DEADLOCK FALSE
