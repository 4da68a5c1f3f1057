SPECIFICATION FairSpec
CONSTANTS
  p1 = p1
  p2 = p2
  s1 = s1
  s2 = s2
  j1 = j1
  NoOne = NoOne
  Jobs = {j1}
  Procs = {p1, p2}
  Slots = {s1, s2}
  Home <- TwoProcs
  MaxAttempts = 3
  MaxAssets = 6
  MaxReaps = 1
  MaxTime = 1
  UserOps = {"cancel", "reschedule"}
  Faults = {"crash", "stall", "drop"}
CHECK_DEADLOCK FALSE
INVARIANTS PostAssetReady DoneIsMaterialised BudgetAccounted
PROPERTIES ImplementsLeasedWork JobSettles
