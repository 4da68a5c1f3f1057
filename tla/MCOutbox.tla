------------------------------ MODULE MCOutbox ------------------------------
EXTENDS Outbox, TLC
CONSTANTS d1, d2, e1, e2
DispatcherSymmetry == Permutations(Dispatchers)
=============================================================================
