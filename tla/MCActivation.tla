---- MODULE MCActivation ----
EXTENDS Activation, TLC
Symmetry == Permutations(Runtimes)
====
