SPECIFICATION ChannelsSpec
CONSTANTS
  p1 = p1  p2 = p2  c1 = c1  c2 = c2  t1 = t1  k1 = k1
  Producers = {p1, p2}
  Consumers = {c1, c2}
  Triers = {t1}
  Closers = {k1}
  FirstClosers = {p1, k1}
  Timed = {p2, c2}
  Hwm = 1
  Lwm = 1
  MaxCalls = 1
INVARIANTS
  EndMeansDrained
  NobodySleepsAtTheEnd
PROPERTIES
  NothingEntersLate
  CloseEndsCalls
CHECK_DEADLOCK FALSE
