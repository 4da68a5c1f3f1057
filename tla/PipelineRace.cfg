SPECIFICATION Spec
CONSTANTS
  w1 = w1
  w2 = w2
  t1 = t1
  t2 = t2
  NoOne = NoOne
  Targets = {t1}
  Workers = {w1, w2}
  AsyncTargets = {t1}
  YouTube = {t1}
  Exports = {}
  MaxReconcile = 2
  MaxSends = 2
  UserOps = {"cancel", "schedule", "edit"}
  MaxUserOps = 2
  Faults = {"crash", "drop", "stall"}
SYMMETRY WorkerSymmetry
CHECK_DEADLOCK FALSE
INVARIANTS TypeOK SingleDriver AtMostOnePublication BudgetHonoured
PROPERTY TerminalStable
