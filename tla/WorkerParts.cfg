SPECIFICATION PartsSpec
CONSTANTS
  Threads = {t1, t2}
  InitCount = 0
  SpinCount = 1
  MaxCalls = 3
  Thieves = {th1, th2}
  InitialSize = 2
  MaxPuts = 7
INVARIANTS
  NoLostWakeup
  DeactivationReleasesAll
  EachTaskOnceUnlessMisled
PROPERTIES
  DeactivationWakes
  NewestToOwnerOldestToThief
  FailsOnlyWhenEmpty
CHECK_DEADLOCK FALSE
