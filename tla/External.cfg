SPECIFICATION FairSpec
CONSTANTS
  r1 = r1
  r2 = r2
  r3 = r3
  r4 = r4
  w1 = w1
  w2 = w2
  k1 = k1
  k2 = k2
  e1 = e1
  e2 = e2
  b1 = b1
  b2 = b2
  b3 = b3
  NoOne = NoOne
  Requests = {r1, r2, r3, r4}
  Key <- Keying
  Ext <- Naming
  Body <- Bodies
  Artifacts = {r1, r2}
  Workers = {w1, w2}
  MaxAttempts = 2
  MaxLosses = 1
  Faults = {"request", "answer", "crash", "stall", "mark", "cancel"}
INVARIANTS ReplayIsAnswered OneUploadJob LinkedIsDownloading AttemptsAccounted
PROPERTY DeliveryDecided
CHECK_DEADLOCK FALSE
