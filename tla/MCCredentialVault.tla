------------------------- MODULE MCCredentialVault -------------------------
(* Instances of CredentialVault for TLC. *)
EXTENDS CredentialVault, TLC
CONSTANTS a1, a2, t1, t2
\* Accounts and transactions are interchangeable: no action names one of them.
VaultSymmetry == Permutations(Accounts) \cup Permutations(Txs)
=============================================================================
