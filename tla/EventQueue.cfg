SPECIFICATION FairQueue
CONSTANTS
  Producers = {p1, p2}
  Consumers = {c1, c2}
  Event = {e1, e2}
  MaxPushes = 3
INVARIANTS Fifo NoLostWakeup
PROPERTIES EventsPopped
