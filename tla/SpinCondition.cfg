SPECIFICATION FairSpec
CONSTANTS
  w1 = w1  w2 = w2  w3 = w3
  n1 = n1  n2 = n2
  Waiters = {w1, w2, w3}
  Notifiers = {n1, n2}
  Timed = {w1}
  Interruptible = {w2}
  MaxWaiters = 5
INVARIANT HandedOver
PROPERTIES AllLeave EnterFreed
CHECK_DEADLOCK FALSE
