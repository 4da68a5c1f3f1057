SPECIFICATION FairSpec
CONSTANTS
  d1 = d1
  d2 = d2
  e1 = e1
  e2 = e2
  Events = {e1, e2}
  Foreign = {e2}
  Dispatchers = {d1, d2}
  MaxAttempts = 2
  MaxClaims = 4
  Faults = {"crash", "stall", "mark", "insert"}
CHECK_DEADLOCK FALSE
INVARIANTS ExactlyOneJob DeadLetterJustified
PROPERTIES DecisionStable EventSettles
