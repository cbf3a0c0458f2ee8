---------------------------- MODULE MCResetJournal ----------------------------
EXTENDS ResetJournal, TLC
Symmetry == Permutations(Accounts) \cup Permutations(Operations) \cup Permutations(Generated)
=============================================================================
