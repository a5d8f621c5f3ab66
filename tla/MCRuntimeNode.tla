--------------------------- MODULE MCRuntimeNode ---------------------------
EXTENDS RuntimeNode, TLC

\* Goals are told apart by their order of events only, addresses by who has them.
Symmetry == Permutations(Goal) \cup Permutations(Address)
============================================================================
