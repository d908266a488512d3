SPECIFICATION Spec
CONSTANTS
  Producers = {p1, p2}
  Consumers = {c1}
  Timed = {}
  HWM = 1
  LWM = 1
  MaxPuts = 1
PROPERTY ProducerWakes
