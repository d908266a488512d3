SPECIFICATION FairSpec
CONSTANTS
  s1 = s1
  PoolSize = 2
  Roots = {1}
  Forking = {1}
  Closers = {s1}
  NowClosers = {s1}
  MaxPermits = 3
PROPERTIES ShutdownComesBack SubmittedRuns
CHECK_DEADLOCK FALSE
