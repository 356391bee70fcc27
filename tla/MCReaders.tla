------------------------------ MODULE MCReaders ------------------------------
EXTENDS Readers, TLC

Symmetry == Permutations(Tasks) \cup Permutations(Shots)
=============================================================================
