---------------------------- MODULE MCOwnerFence ----------------------------
EXTENDS OwnerFence, TLC

Symmetry == Permutations(Host) \cup Permutations(Parent) \cup Permutations(Spelling)
=============================================================================
