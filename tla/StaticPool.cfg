SPECIFICATION Spec
CONSTANTS
  s1 = s1
  PoolSize = 2
  Roots = {1, 2}
  Forking = {1}
  Closers = {s1}
  NowClosers = {s1}
  MaxPermits = 3
INVARIANTS OnePlace NobodySleepsBesideTask
PROPERTY ImplementsPool
CHECK_DEADLOCK FALSE
