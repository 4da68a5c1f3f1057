SPECIFICATION Spec
CONSTANTS
  c1 = c1
  c2 = c2
  c3 = c3
  Nobody = Nobody
  N = 2
  Clients = {c1, c2}
  Kinds = {"claim", "transition", "lease", "publish", "cancel", "repair", "disconnect", "edit"}
SYMMETRY ClientSymmetry
INVARIANT AggregateExact
