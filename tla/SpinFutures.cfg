SPECIFICATION FuturesSpec
CONSTANTS
  Producers = {s1, s2}
  Waiters = {w1, w2, w3}
  Timed = {w3}
  OwnerWaits = TRUE
  a1 = a1  a2 = a2  a3 = a3
  f1 = f1  f2 = f2
  Futures = {f1, f2}
  AnyWaiters = {a1, a2, a3}
  Order <- OneOrder
  Users = {u1, u2}
  TimedUsers = {u2}
  MaxCalls = 2
INVARIANTS
  OneOrigin
  AnyNotifiesTheLiving
PROPERTIES
  OutcomeStands
  WaitEnds
  AnyReturns
  HandleWaitEnds
CHECK_DEADLOCK FALSE
