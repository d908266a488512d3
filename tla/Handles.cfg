SPECIFICATION HandlesSpec
CONSTANTS
  Producers = {p1, p2}
  Uniques = {u1, u2}
  Shareds = {s1, s2}
  MaxResults = 3
  Handles = {h1, h2}
  MaxPools = 2
  Size = 1
  Hwm = 1
  Roots = {r1, r2}
  k1 = k1  k2 = k2
INVARIANTS
  OwnedOnce
  OrphanIsReady
  NoPoolLeaks
PROPERTIES
  CallsReturn
CHECK_DEADLOCK FALSE
