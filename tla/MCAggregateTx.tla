--------------------------- MODULE MCAggregateTx ---------------------------
EXTENDS AggregateTx, TLC
CONSTANTS c1, c2, c3
ClientSymmetry == Permutations(Clients)
=============================================================================
