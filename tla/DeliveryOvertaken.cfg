CONSTANTS
  w1 = w1
  w2 = w2
  c1 = c1
  Workers = {w1, w2}
  Subscribers = {c1}
  WorkerOf <- MCWorkerOf
  MaxMessages = 2
  MaxSessions = 2
  MaxDrops = 0
  Faults = FALSE
SPECIFICATION DeliverySpec
INVARIANT AllNewEvents
CHECK_DEADLOCK FALSE
