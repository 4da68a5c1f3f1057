SPECIFICATION Spec
CONSTANTS
  w1 = w1
  w2 = w2
  t1 = t1
  t2 = t2
  NoOne = NoOne
  Targets = {t1, t2}
  Workers = {w1}
  AsyncTargets = {t1}
  YouTube = {}
  Exports = {t2}
  MaxReconcile = 1
  MaxSends = 2
  UserOps = {"publish", "cancel", "retry", "schedule"}
  MaxUserOps = 1
  Faults = {"lost", "drop", "noid"}
CHECK_DEADLOCK FALSE
INVARIANTS PublishedIsLive PostPublishedIsLive
