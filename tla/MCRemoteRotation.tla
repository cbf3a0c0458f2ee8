--------------------------- MODULE MCRemoteRotation ---------------------------
EXTENDS RemoteRotation, TLC
Symmetry == Permutations(Accounts) \cup Permutations(Turns) \cup Permutations(Ops)
=============================================================================
