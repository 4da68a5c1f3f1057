SPECIFICATION Spec
CONSTANTS
  a1 = a1
  a2 = a2
  t1 = t1
  t2 = t2
  Nobody = Nobody
  Accounts = {a1, a2}
  Txs = {t1, t2}
  Ops = {"renew", "authorize", "disconnect", "delete", "revoke", "status", "mark"}
  Faults = {"provider", "answer", "save", "timeout", "remote"}
  MaxTokens = 2
SYMMETRY VaultSymmetry
INVARIANTS NoDoubleSpend StoredTokenLive NoOrphanGrant
PROPERTIES NoResurrection
