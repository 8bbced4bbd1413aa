SPECIFICATION Spec
CONSTANTS
  m1 = m1  m2 = m2
  e1 = e1
  Message <- MCTwoMessages
  Event = {e1}
  EventOf <- MCTwoEventOf
  Worker = {w1, w2}
  Part = {1, 2}
  MaxDeliver = 2
  MaxFaults = 2
  KeepAlive = FALSE
INVARIANTS
  TypeOK
  OneRunPerEvent
  SentDataStored
  SettledIsDone
PROPERTIES
  ImplementsProcessOnce
CHECK_DEADLOCK FALSE
