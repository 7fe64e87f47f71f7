CONSTANTS
  p1 = p1
  p2 = p2
  c1 = c1
  c2 = c2
  Producers <- TwoProducers
  Consumers <- TwoConsumers
  Capacity = 2
  Events = 3
  MaxSpurious = 2
CHECK_DEADLOCK FALSE
SPECIFICATION FairSpec
INVARIANTS IndInv NoLostWakeup
PROPERTIES ImplementsFifo AllDelivered
