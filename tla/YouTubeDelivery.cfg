SPECIFICATION FairSpec
CONSTANTS
  p1 = p1
  p2 = p2
  s1 = s1
  s2 = s2
  d1 = d1
  d2 = d2
  NoOne = NoOne
  Deliveries = {d1}
  Procs = {p1, p2}
  Slots = {s1, s2}
  Home <- TwoProcs
  Limit <- Ceilings
  MaxAttempts = 2
  MaxDays = 2
  MaxVideos = 3
  MaxLosses = 1
  Faults = {"crash", "stall", "drop", "answer", "mark", "cancel", "delete"}
CHECK_DEADLOCK FALSE
INVARIANTS QuotaHonoured  AttemptsHonoured 
PROPERTIES ImplementsLeasedWork DeliverySettles
