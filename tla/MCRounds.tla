---- MODULE MCRounds ----
EXTENDS RoundSync, TLC
Symmetry == Permutations(Node)
====
