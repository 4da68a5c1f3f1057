SPECIFICATION FairSpec
CONSTANTS
  d1 = d1
  d2 = d2
  w1 = w1
  w2 = w2
  w3 = w3
  NoOne = NoOne
  Deliveries = {d1}
  Workers = {w1, w2, w3}
  MaxAttempts = 3
  MaxLosses = 2
  MaxReplays = 1
  Faults = {"crash", "stall", "mark", "shutdown", "load"}
INVARIANTS SendsAccounted OneSender
PROPERTIES ImplementsLeasedWork DeliverySettles
CHECK_DEADLOCK FALSE
