SPECIFICATION EventsSpec
CONSTANTS
  Threads = {t1, t2, t3}
  Size = 3
  MaxBatches = 4
  Calls = {s1, s2, s3, s4}
  CountWaiters = {w1, w2}
  Initial = 4
  Modulus = 8
  EventWaiters = {w1, w2}
  EventTriers = {w3}
  Controllers = {c1}
  Interruptible = {w2}
  IsSet = TRUE
  MaxSets = 3
  MaxWaiters = 5
  Setters = {s1, s2}
  SetsEach = 3
INVARIANTS
  NobodyLeftBehind
  OneCallPerSignal
  EventUnlockerThere
PROPERTIES
  CountedDown
  EventEnterFreed
CHECK_DEADLOCK FALSE
