SPECIFICATION ProviderFairSpec
CONSTANTS
  w1 = w1
  w2 = w2
  t1 = t1
  t2 = t2
  NoOne = NoOne
  Targets = {t1}
  Workers = {w1, w2}
  AsyncTargets = {t1}
  YouTube = {}
  Exports = {}
  MaxReconcile = 2
  MaxSends = 1
  UserOps = {}
  MaxUserOps = 0
  Faults = {"crash"}
CHECK_DEADLOCK FALSE
PROPERTY ClaimedRowIsNotLeaked
