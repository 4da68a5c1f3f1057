SPECIFICATION FairSpec
CONSTANTS
  c1 = c1
  c2 = c2
  c3 = c3
  Nobody = Nobody
  N = 2
  Clients = {c1, c2, c3}
  Kinds = {"claim", "publish", "repair"}
INVARIANT NoWaitCycle
PROPERTY TransactionsEnd
