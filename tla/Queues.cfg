SPECIFICATION QueuesSpec
CONSTANTS
  Producers = {p1, p2, p3, p4, p5}
  Timed = {p4, p5}
  Hwm = 3
  Lwm = 3
  FifoProducers = {f1, f2}
  FifoConsumers = {c1, c2}
  FifoTimed = {f1}
  FifoHwm = 2
  FifoLwm = 1
  FifoPuts = 2
  OpenPuts = 1
  OpenProducers = {q1, q2, q3}
  OpenWorkers = {w1, w2, w3}
  MaxPermits = 4
INVARIANTS
  NoSleeperBesideRoom
  NothingEntersLate
  NodesReclaimed
  NobodySleepsBesideWork
PROPERTIES
  BoundedIsQueue
  UnboundedIsQueue
  ProducerWakes
CHECK_DEADLOCK FALSE
