SPECIFICATION Spec
CONSTANTS
  Producers = {p1}
  Consumers = {c1}
  MaxPuts = 2
INVARIANT ReachableLives
CHECK_DEADLOCK FALSE
