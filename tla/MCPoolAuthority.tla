---- MODULE MCPoolAuthority ----
EXTENDS PoolAuthority
Symmetry == Permutations(Accounts)
====
